---- MODULE Spec2Model ----
(***************************************************************************)
(* Model of the load tester's TestManager (src/database.go, second part:   *)
(* the admission handler HandleStartTest, the run supervisor runLoadTest   *)
(* with its ramp, virtual-user, sampler and circuit-breaker goroutines,    *)
(* finalization by calculateAndSaveMetrics, and the stop/status handlers). *)
(*                                                                         *)
(* The specifications share the variables:                                 *)
(*   SpecAdm  - concurrent start requests against the registry, the        *)
(*              per-IP table and the rate-limit map; a run's body is one   *)
(*              step, its deferred cleanup is three.                       *)
(*   Spec     - one admitted run in detail, with stop and status requests  *)
(*              and the manager's shutdown.                                *)
(*   FairSpec - Spec under the scheduling the runtime guarantees.          *)
(*   SpecAgg  - one run's collector and sample table in detail: several    *)
(*              requests with different latencies, failing sample writes.  *)
(***************************************************************************)
EXTENDS Integers, FiniteSets, Sequences, TLC

----------------------------------------------------------------------------
(* Program constants (src/database.go:613-624, 970).                       *)
MaxUsers == 1000
MaxDuration == 300
MaxRampUpSec == 300
MinUsers == 1
MinDuration == 1
MinRampUpSec == 0
MaxConcurrentTests == 50
MaxTestsPerIP == 3
RateLimitSeconds == 5
CircuitMinRequests == 10
MaxLatencySamples == 10000
MaxTimeSeries == 3600

(* Bounds of the model.                                                    *)
NumCallers == 2
NumReqs == 2
MaxTime == 5
MaxEnded == 1

----------------------------------------------------------------------------
VARIABLES
    now,             \* wall clock, whole seconds
    lastTestStarts,  \* tm.lastTestStarts: IP -> time of the last start that passed the limiter
    activeTests,     \* tm.activeTests: the UUIDs registered
    testsPerIP,      \* tm.testsPerIP: IP -> set of UUIDs
    db,              \* test_runs table: UUID -> persisted row
    testRun,         \* the TestRun descriptors in memory: UUID -> record
    tctx,            \* TestContext: UUID -> [done: ctx cancelled, isRunning: IsRunning]
    metrics,         \* MetricsCollector: UUID -> [total, success, error, latencies, timeSeries]
    sup,             \* each run's runLoadTest goroutine: UUID -> [pc, ip]
    req,             \* the HandleStartTest invocations: position and locals
    okStarts,        \* history: IP -> limiter timestamps of the starts that succeeded
    calcCount,       \* history: UUID -> executions of calculateAndSaveMetrics
    updateFailed,    \* history: UUID -> the last UpdateTestRun of the run failed
    stopChan,        \* the detailed run: stopChan is closed
    ramp,            \* the detailed run: ramp goroutine [pc, started, elapsed, target]
    user,            \* the detailed run: virtual user -> position in runUser
    wg,              \* the detailed run: sync.WaitGroup counter
    sampler,         \* the detailed run: collectTimeSeries [pc, points]
    cb,              \* the detailed run: circuit-breaker goroutine [pc, stopped, total, error]
    issued,          \* the detailed run: requests the virtual users have issued
    targetURL,       \* the detailed run: virtual user -> runUser's targetURL
    flight,          \* history: the traced users' requests [open, emitted]
    endedBy,         \* history: which case of the supervisor's select fired
    stopLog,         \* HandleStopTest: [pc, ok: stops accepted, resp: last answer]
    snap,            \* HandleGetMetrics of the detailed run: [pc, total, success, error, answered]
    proc,            \* main: "serving", "shutdown" after tm.Shutdown, "exited"
    requestMetrics,  \* request_metrics table: the rows, in insertion order
    saveErrors       \* history: SaveRequestMetric calls that failed (logged at line 1087)

gAdm == <<now, lastTestStarts, req, okStarts>>
gReg == <<activeTests, testsPerIP>>
gDesc == <<db, testRun, calcCount, updateFailed>>
gCtx == <<tctx, metrics, sup>>
gRun == <<stopChan, ramp, user, wg, sampler, cb, issued, targetURL, flight, endedBy>>
gHttp == <<stopLog, snap, proc>>
gSink == <<requestMetrics, saveErrors>>

vars == <<gAdm, gReg, gDesc, gCtx, gRun, gHttp, gSink>>

----------------------------------------------------------------------------
(* Callers, requests and run identifiers.                                  *)
Callers == 1..NumCallers
Reqs == 1..NumReqs

(* Callers outside the modelled set, whose runs only fill the registry.    *)
BgOwner(u) == NumCallers + 1 + ((u - 101) \div MaxTestsPerIP)
BgRuns(n) == 101..(100 + n)
BgIPs(n) == {BgOwner(u) : u \in BgRuns(n)}

(* Runs caller 1 started before the modelled window.                       *)
PreRuns(c) == 1..c

(* uuid.New(): one fresh identifier per start request.                     *)
NewUUID(q) == 200 + q

Put(f, k, v) == [x \in (DOMAIN f) \cup {k} |-> IF x = k THEN v ELSE f[x]]
Drop(f, k) == [x \in (DOMAIN f) \ {k} |-> f[x]]

----------------------------------------------------------------------------
(* float64 values that are zero or positive and normal: the value is       *)
(* (hi * 2^LoBits + lo) * 2^e, with a significand of SigBits bits whose    *)
(* leading bit is set. The significand is kept in two parts, and wide      *)
(* integers in little-endian limbs of LimbBits bits, because they exceed   *)
(* the integers available here.                                            *)
SigBits == 53
LoBits == 27
LimbBits == 15
Base == 2^LimbBits

FZero == [e |-> 0, hi |-> 0, lo |-> 0]

IsFZero(x) == x.hi = 0 /\ x.lo = 0

(* The significand as four limbs, and back.                                *)
SigLimbs(x) ==
    << x.lo % Base,
       (x.lo \div Base) + (x.hi % 8) * 2^12,
       (x.hi \div 8) % Base,
       x.hi \div 2^18 >>

MkFloat(s, e) ==
    [e |-> e,
     hi |-> (s[2] \div 2^12) + s[3] * 8 + s[4] * 2^18,
     lo |-> s[1] + (s[2] % 2^12) * Base]

LimbAt(a, i) == IF i <= Len(a) THEN a[i] ELSE 0

RECURSIVE StripL(_)
StripL(a) ==
    IF a = <<>> \/ a[Len(a)] # 0 THEN a ELSE StripL(SubSeq(a, 1, Len(a) - 1))

(* a + b + c.                                                              *)
RECURSIVE AddL(_, _, _)
AddL(a, b, c) ==
    IF a = <<>> /\ b = <<>>
    THEN IF c = 0 THEN <<>> ELSE <<c>>
    ELSE LET s == LimbAt(a, 1) + LimbAt(b, 1) + c
         IN  <<s % Base>> \o AddL(SubSeq(a, 2, Len(a)), SubSeq(b, 2, Len(b)), s \div Base)

(* a * n + c, for n < 2^15.                                                *)
RECURSIVE MulL(_, _, _)
MulL(a, n, c) ==
    IF a = <<>>
    THEN IF c = 0 THEN <<>> ELSE <<c>>
    ELSE LET t == a[1] * n + c
         IN  <<t % Base>> \o MulL(Tail(a), n, t \div Base)

(* Quotient and remainder of a by n, for 0 < n <= 2^15.                    *)
RECURSIVE DivL(_, _)
DivL(a, n) ==
    IF a = <<>> THEN [q |-> <<>>, r |-> 0]
    ELSE LET p == DivL(Tail(a), n)
             t == p.r * Base + a[1]
         IN  [q |-> <<t \div n>> \o p.q, r |-> t % n]

(* a * 2^k, and a \div 2^k with the note that a nonzero part was dropped.  *)
ShlL(a, k) == [i \in 1..(k \div LimbBits) |-> 0] \o MulL(a, 2^(k % LimbBits), 0)

ShrL(a, k) ==
    LET w == k \div LimbBits
        d == DivL(SubSeq(a, w + 1, Len(a)), 2^(k % LimbBits))
    IN  [q |-> d.q,
         sticky |-> d.r # 0 \/ \E i \in 1..w : LimbAt(a, i) # 0]

(* Number of bits of a (its top limb is not zero).                         *)
BitLenL(a) ==
    LimbBits * (Len(a) - 1)
        + CHOOSE k \in 1..LimbBits : 2^(k - 1) <= a[Len(a)] /\ a[Len(a)] < 2^k

(* Round the integer a * 2^e (plus a nonzero fraction if sticky) to        *)
(* SigBits bits, to nearest, ties to even.                                 *)
RoundL(a0, e, sticky) ==
    LET a == StripL(a0)
    IN  IF a = <<>> THEN FZero
        ELSE LET n == BitLenL(a)
             IN  IF n <= SigBits
                 THEN MkFloat(ShlL(a, SigBits - n) \o <<0, 0, 0>>, e - (SigBits - n))
                 ELSE LET g == ShrL(a, n - SigBits - 1)
                          guard == g.q[1] % 2
                          s == ShrL(g.q, 1).q \o <<0, 0, 0>>
                          up == guard = 1 /\ (sticky \/ g.sticky \/ s[1] % 2 = 1)
                          inc == StripL(AddL(s, <<>>, 1))
                          x == e + (n - SigBits)
                      IN  IF ~up THEN MkFloat(s, x)
                          ELSE IF BitLenL(inc) > SigBits
                               THEN MkFloat(ShrL(inc, 1).q \o <<0, 0, 0>>, x + 1)
                               ELSE MkFloat(inc \o <<0, 0, 0>>, x)

(* Beyond this difference of exponents the smaller term is rounded away.   *)
MaxShift == 64

(* x + y rounded, by the exact sum of the significands at the smaller     *)
(* exponent.                                                               *)
FAddRound(x, y) ==
    IF x.e - y.e > MaxShift THEN x
    ELSE IF y.e - x.e > MaxShift THEN y
    ELSE LET e == IF x.e < y.e THEN x.e ELSE y.e
         IN  RoundL(AddL(ShlL(SigLimbs(x), x.e - e), ShlL(SigLimbs(y), y.e - e), 0),
                    e, FALSE)

(* The sum of the significands at x's exponent, for 0 <= d = x.e - y.e <   *)
(* LoBits and y a multiple of 2^x.e: hi may have one bit more.             *)
AddAligned(x, y, d) ==
    LET l == x.lo + (y.lo \div 2^d) + (y.hi % 2^d) * 2^(LoBits - d)
    IN  [hi |-> x.hi + (y.hi \div 2^d) + (l \div 2^LoBits), lo |-> l % 2^LoBits]

(* x + y for x.e >= y.e: when the sum fits SigBits bits nothing is rounded *)
(* and it is the sum itself.                                               *)
FAddOrdered(x, y) ==
    IF x.e - y.e < LoBits /\ y.lo % 2^(x.e - y.e) = 0
    THEN LET s == AddAligned(x, y, x.e - y.e)
         IN  IF s.hi < 2^(SigBits - LoBits)
             THEN [e |-> x.e, hi |-> s.hi, lo |-> s.lo]
             ELSE IF s.lo % 2 = 0
                  THEN [e |-> x.e + 1, hi |-> s.hi \div 2,
                        lo |-> (s.lo \div 2) + (s.hi % 2) * 2^(LoBits - 1)]
                  ELSE FAddRound(x, y)
    ELSE FAddRound(x, y)

(* x + y in float64.                                                       *)
FAdd(x, y) ==
    IF IsFZero(x) THEN y
    ELSE IF IsFZero(y) THEN x
    ELSE IF x.e >= y.e THEN FAddOrdered(x, y) ELSE FAddOrdered(y, x)

(* Fraction bits kept by the division before rounding.                     *)
DivGuard == 17

(* x / n rounded, by the quotient of the significand with DivGuard more    *)
(* bits.                                                                   *)
FDivRound(x, n) ==
    LET d == DivL(ShlL(SigLimbs(x), DivGuard), n)
    IN  RoundL(d.q, x.e - DivGuard, d.r # 0)

(* The significand hi * 2^LoBits + lo < 2^SigBits moved up until its       *)
(* leading bit is set, for hi >= 2^(SigBits - LoBits - LimbBits).          *)
Normalized(hi, lo, e) ==
    LET k == CHOOSE j \in 0..LimbBits : 2^(SigBits - LoBits - 1) <= hi * 2^j
                                        /\ hi * 2^j < 2^(SigBits - LoBits)
    IN  [e |-> e - k, hi |-> hi * 2^k + (lo \div 2^(LoBits - k)),
         lo |-> (lo % 2^(LoBits - k)) * 2^k]

(* x / float64(n) in float64, for 1 <= n < 2^14 (float64(n) is exact):     *)
(* when n divides both parts of the significand the quotient is exact.     *)
FDivInt(x, n) ==
    IF ~IsFZero(x) /\ x.hi % n = 0 /\ x.lo % n = 0
    THEN Normalized(x.hi \div n, x.lo \div n, x.e)
    ELSE FDivRound(x, n)

(* float64(n) * x in float64, for n < 2^15: the exact product, rounded.    *)
FMulInt(x, n) == RoundL(MulL(SigLimbs(x), n, 0), x.e, FALSE)

(* a * b.                                                                  *)
RECURSIVE MulLL(_, _)
MulLL(a, b) ==
    IF b = <<>> THEN <<>>
    ELSE AddL(MulL(a, b[1], 0), <<0>> \o MulLL(a, Tail(b)), 0)

(* x * y in float64: the exact product of the significands, rounded.       *)
FMul(x, y) ==
    IF IsFZero(x) \/ IsFZero(y) THEN FZero
    ELSE RoundL(MulLL(SigLimbs(x), SigLimbs(y)), x.e + y.e, FALSE)

(* +Inf, above every finite value; it is compared and never multiplied.    *)
FInf == [e |-> 2^10, hi |-> 2^(SigBits - LoBits - 1), lo |-> 0]

(* int(x): the integer part, for x < 2^30.                                 *)
FTrunc(x) ==
    IF IsFZero(x) \/ x.e <= -SigBits THEN 0
    ELSE LET q == ShrL(SigLimbs(x), -x.e).q
         IN  LimbAt(q, 1) + LimbAt(q, 2) * Base

FLeq(x, y) ==
    \/ IsFZero(x)
    \/ /\ ~IsFZero(y)
       /\ \/ x.e < y.e
          \/ x.e = y.e /\ x.hi < y.hi
          \/ x.e = y.e /\ x.hi = y.hi /\ x.lo <= y.lo

FLess(x, y) == ~FLeq(y, x)

(* float64(n) for 0 <= n < 2^30.                                           *)
FloatOfInt(n) == RoundL(<<n % Base, n \div Base>>, 0, FALSE)

----------------------------------------------------------------------------
(* The host validator (lines 1125-1246). A string is the sequence of its   *)
(* characters; the targets considered are ASCII and carry no escapes.      *)

LowerCase ==
    <<"a", "b", "c", "d", "e", "f", "g", "h", "i", "j", "k", "l", "m", "n",
      "o", "p", "q", "r", "s", "t", "u", "v", "w", "x", "y", "z">>
UpperCase ==
    <<"A", "B", "C", "D", "E", "F", "G", "H", "I", "J", "K", "L", "M", "N",
      "O", "P", "Q", "R", "S", "T", "U", "V", "W", "X", "Y", "Z">>
Digits == {"0", "1", "2", "3", "4", "5", "6", "7", "8", "9"}
Space == {" ", "\t", "\n", "\r"}

IsLetter(c) == \E k \in 1..Len(LowerCase) : c = LowerCase[k] \/ c = UpperCase[k]

(* strings.ToLower.                                                        *)
ToLower(s) ==
    [i \in 1..Len(s) |->
        IF \E k \in 1..Len(UpperCase) : s[i] = UpperCase[k]
        THEN LowerCase[CHOOSE k \in 1..Len(UpperCase) : s[i] = UpperCase[k]]
        ELSE s[i]]

(* strings.ToUpper.                                                        *)
ToUpper(s) ==
    [i \in 1..Len(s) |->
        IF \E k \in 1..Len(LowerCase) : s[i] = LowerCase[k]
        THEN UpperCase[CHOOSE k \in 1..Len(LowerCase) : s[i] = LowerCase[k]]
        ELSE s[i]]

(* strings.TrimSpace.                                                      *)
TrimSpace(s) ==
    LET keep == {i \in 1..Len(s) : s[i] \notin Space}
    IN  IF keep = {} THEN <<>>
        ELSE SubSeq(s, CHOOSE i \in keep : \A j \in keep : i <= j,
                       CHOOSE i \in keep : \A j \in keep : i >= j)

(* The positions where sub occurs in s; strings.Index is the least and     *)
(* strings.LastIndex the greatest, here 0 when there is none.              *)
Occurrences(s, sub) ==
    {i \in 1..(Len(s) - Len(sub) + 1) : SubSeq(s, i, i + Len(sub) - 1) = sub}

Index(s, sub) ==
    IF Occurrences(s, sub) = {} THEN 0
    ELSE CHOOSE i \in Occurrences(s, sub) : \A j \in Occurrences(s, sub) : i <= j

LastIndex(s, sub) ==
    IF Occurrences(s, sub) = {} THEN 0
    ELSE CHOOSE i \in Occurrences(s, sub) : \A j \in Occurrences(s, sub) : i >= j

Contains(s, sub) == Index(s, sub) # 0

HasPrefix(s, p) == Len(s) >= Len(p) /\ SubSeq(s, 1, Len(p)) = p

(* strings.Split(s, sep)[0], also the first result of strings.Cut.         *)
Before(s, sep) == IF Contains(s, sep) THEN SubSeq(s, 1, Index(s, sep) - 1) ELSE s

From(s, i) == SubSeq(s, i, Len(s))

(* net/url getScheme: letters, then digits and + - . after the first       *)
(* character, up to a colon; a colon in front is an error, anything else   *)
(* means there is no scheme.                                               *)
getScheme(raw) ==
    LET stops == {i \in 1..Len(raw) :
                    ~(IsLetter(raw[i]) \/ (i > 1 /\ raw[i] \in Digits \cup {"+", "-", "."}))}
        i == CHOOSE k \in stops : \A j \in stops : k <= j
    IN  IF stops = {} \/ raw[i] # ":"
        THEN [err |-> FALSE, scheme |-> <<>>, rest |-> raw]
        ELSE IF i = 1
             THEN [err |-> TRUE, scheme |-> <<>>, rest |-> raw]
             ELSE [err |-> FALSE, scheme |-> SubSeq(raw, 1, i - 1), rest |-> From(raw, i + 1)]

(* net/url validOptionalPort: empty, or a colon and digits.                *)
validOptionalPort(port) ==
    port = <<>> \/ (port[1] = ":" /\ \A k \in 2..Len(port) : port[k] \in Digits)

(* The characters net/url leaves unescaped in a host and in user info.     *)
HostChars ==
    Digits \cup {"-", "_", ".", "~", "!", "$", "&", "'", "(", ")", "*", "+", ",", ";",
                 "=", ":", "[", "]", "<", ">", "\""}

UserChars ==
    Digits \cup {"-", "_", ".", "~", "!", "$", "&", "'", "(", ")", "*", "+", ",", ";",
                 "=", ":", "@"}

(* net/url parseAuthority and parseHost: the host with its port, or an     *)
(* error.                                                                  *)
parseAuthority(authority) ==
    LET at == LastIndex(authority, <<"@">>)
        host == From(authority, at + 1)
        close == LastIndex(host, <<"]">>)
        colon == LastIndex(host, <<":">>)
        badUser == \E k \in 1..(at - 1) :
                      ~IsLetter(authority[k]) /\ authority[k] \notin UserChars
        badPort == IF HasPrefix(host, <<"[">>)
                   THEN close = 0 \/ ~validOptionalPort(From(host, close + 1))
                   ELSE colon # 0 /\ ~validOptionalPort(From(host, colon))
        badChar == \E k \in 1..Len(host) : ~IsLetter(host[k]) /\ host[k] \notin HostChars
    IN  [err |-> badUser \/ badPort \/ badChar, host |-> host]

(* url.Parse: scheme (lower-cased) and host of the reference; the fragment *)
(* and the query are cut off first.                                        *)
Parse(rawURL) ==
    LET raw == Before(rawURL, <<"#">>)
        g == getScheme(raw)
        scheme == ToLower(g.scheme)
        rest == Before(g.rest, <<"?">>)
        a == parseAuthority(Before(From(rest, 3), <<"/">>))
    IN  IF (\E k \in 1..Len(raw) : raw[k] \in {"\t", "\n", "\r"}) \/ g.err
        THEN [err |-> TRUE, scheme |-> <<>>, host |-> <<>>]
        ELSE IF ~HasPrefix(rest, <<"/">>)
        THEN [err |-> scheme = <<>> /\ Contains(Before(rest, <<"/">>), <<":">>),
              scheme |-> scheme, host |-> <<>>]
        ELSE IF HasPrefix(rest, <<"/", "/">>)
                  /\ (scheme # <<>> \/ ~HasPrefix(rest, <<"/", "/", "/">>))
        THEN [err |-> a.err, scheme |-> scheme, host |-> a.host]
        ELSE [err |-> FALSE, scheme |-> scheme, host |-> <<>>]

(* URL.Hostname: the host without a valid port and without brackets.       *)
Hostname(host) ==
    LET colon == LastIndex(host, <<":">>)
        h == IF colon # 0 /\ validOptionalPort(From(host, colon))
             THEN SubSeq(host, 1, colon - 1) ELSE host
    IN  IF HasPrefix(h, <<"[">>) /\ Len(h) >= 2 /\ h[Len(h)] = "]"
        THEN SubSeq(h, 2, Len(h) - 1) ELSE h

Localhost == <<"l", "o", "c", "a", "l", "h", "o", "s", "t">>
Loopback4 == <<"1", "2", "7", ".", "0", ".", "0", ".", "1">>
Loopback6 == <<":", ":", "1">>

(* The prefixes of lines 1224-1241.                                        *)
PrivatePrefixes ==
    { <<"1", "9", "2", ".", "1", "6", "8", ".">>,
      <<"1", "0", ".">> }
      \cup { <<"1", "7", "2", ".">> \o d \o <<".">> :
               d \in { <<"1", x>> : x \in {"6", "7", "8", "9"} }
                   \cup { <<"2", x>> : x \in Digits }
                   \cup { <<"3", x>> : x \in {"0", "1"} } }

(* isLocalIP (lines 1214-1246).                                            *)
isLocalIP(host0) ==
    LET host == Before(host0, <<":">>)
    IN  \/ host \in {Localhost, Loopback4, Loopback6}
        \/ \E p \in PrivatePrefixes : HasPrefix(host, p)

(* A variant of the list without its first entry (not the code's).         *)
MetadataHostsShort ==
    { <<"m", "e", "t", "a", "d", "a", "t", "a", ".", "g", "o", "o", "g", "l", "e", ".", "i", "n", "t", "e", "r", "n", "a", "l">>,
      <<"1", "6", "9", ".", "2", "5", "4", ".", "1", "6", "9", ".", "1", "2", "3">>,
      <<"1", "0", "0", ".", "1", "0", "0", ".", "1", "0", "0", ".", "2", "0", "0">> }

(* metadataHosts (lines 1170-1175).                                        *)
MetadataHosts ==
    { <<"1", "6", "9", ".", "2", "5", "4", ".", "1", "6", "9", ".", "2", "5", "4">>,
      <<"m", "e", "t", "a", "d", "a", "t", "a", ".", "g", "o", "o", "g", "l", "e", ".", "i", "n", "t", "e", "r", "n", "a", "l">>,
      <<"1", "6", "9", ".", "2", "5", "4", ".", "1", "6", "9", ".", "1", "2", "3">>,
      <<"1", "0", "0", ".", "1", "0", "0", ".", "1", "0", "0", ".", "2", "0", "0">> }

(* validateHost (lines 1125-1183): "nil", or the reason of the error.      *)
validateHost(host0) ==
    LET host == TrimSpace(host0)
        urlToCheck == IF Contains(host, <<":", "/", "/">>) THEN host
                      ELSE <<"h", "t", "t", "p", ":", "/", "/">> \o host
        parsedURL == Parse(urlToCheck)
        hostname == IF Hostname(parsedURL.host) = <<>> THEN Before(host, <<":">>)
                    ELSE Hostname(parsedURL.host)
    IN  IF host = <<>> THEN "empty"
        ELSE IF parsedURL.err THEN "format"
        ELSE IF parsedURL.scheme \notin {<<>>, <<"h", "t", "t", "p">>,
                                         <<"h", "t", "t", "p", "s">>} THEN "scheme"
        ELSE IF hostname \in {Localhost, Loopback4, Loopback6} THEN "loopback"
        ELSE IF isLocalIP(hostname) THEN "private"
        ELSE IF hostname \in MetadataHosts THEN "metadata"
        ELSE "nil"

(* HandleStartTest's two checks of the host (lines 651-661).               *)
HostAccepted(host) == host # <<>> /\ validateHost(host) = "nil"

HttpPrefix == <<"h", "t", "t", "p", ":", "/", "/">>
HttpsPrefix == <<"h", "t", "t", "p", "s", ":", "/", "/">>

(* The test of lines 1189 and 1196: strings.HasPrefix compares bytes.      *)
HasSchemePrefix(host) == HasPrefix(host, HttpPrefix) \/ HasPrefix(host, HttpsPrefix)

(* normalizeHost (lines 1185-1211).                                        *)
normalizeHost(host0) ==
    LET host == TrimSpace(host0)
    IN  IF HasSchemePrefix(host) THEN host
        ELSE IF Contains(host, <<":">>)
        THEN IF HasSchemePrefix(host) THEN host ELSE HttpPrefix \o host
        ELSE IF isLocalIP(host) THEN HttpPrefix \o host
        ELSE HttpsPrefix \o host

----------------------------------------------------------------------------
(* Start-request inputs: the numeric fields HandleStartTest range-checks.  *)
ParamSet ==
    { [users |-> 1, ramp |-> 0, duration |-> 1, threshold |-> 0],
      [users |-> MaxUsers + 1, ramp |-> 0, duration |-> 1, threshold |-> 0] }

(* A target the validator accepts.                                         *)
ExampleCom == <<"e", "x", "a", "m", "p", "l", "e", ".", "c", "o", "m">>

NoParams == [users |-> 0, ramp |-> 0, duration |-> 0, threshold |-> 0]

ValidLimits(p) ==
    /\ ~(p.users < MinUsers \/ p.users > MaxUsers)
    /\ ~(p.ramp < MinRampUpSec \/ p.ramp > MaxRampUpSec)
    /\ ~(p.duration < MinDuration \/ p.duration > MaxDuration)
    /\ ~(p.ramp > p.duration)

(* The method and the body of a start request that names neither.         *)
DefaultCall == [method |-> <<>>, body |-> <<>>]

MethodGet == <<"G", "E", "T">>
MethodHead == <<"H", "E", "A", "D">>

(* A variant of the list that also holds TRACE (not the code's).           *)
ValidMethodsWithTrace ==
    { MethodGet, <<"P", "O", "S", "T">>, <<"P", "U", "T">>,
      <<"D", "E", "L", "E", "T", "E">>,
      <<"P", "A", "T", "C", "H">>, MethodHead,
      <<"O", "P", "T", "I", "O", "N", "S">>,
      <<"T", "R", "A", "C", "E">> }

(* validMethods (line 691).                                                *)
ValidMethods ==
    { MethodGet, <<"P", "O", "S", "T">>, <<"P", "U", "T">>,
      <<"D", "E", "L", "E", "T", "E">>,
      <<"P", "A", "T", "C", "H">>, MethodHead,
      <<"O", "P", "T", "I", "O", "N", "S">> }

(* req.Method after lines 687-690: GET when empty, in upper case.          *)
RequestMethod(method) == ToUpper(IF method = <<>> THEN MethodGet ELSE method)

(* The method and body checks of lines 686-707.                            *)
ValidCall(c) ==
    /\ RequestMethod(c.method) \in ValidMethods
    /\ ~(c.body # <<>> /\ RequestMethod(c.method) \in {MethodGet, MethodHead})

(* A start request: the host, method and body it carries, the handler's    *)
(* position and locals, and the response.                                  *)
(* clientIP of lines 719-725: r.RemoteAddr, or the part of the             *)
(* X-Forwarded-For header before its first comma, trimmed.                 *)
clientIP(remoteAddr, forwarded) ==
    IF forwarded # <<>> THEN TrimSpace(Before(forwarded, <<",">>)) ELSE remoteAddr

(* The connections of the callers: a caller's RemoteAddr is one opaque     *)
(* value and no X-Forwarded-For header is sent.                            *)
CallerConns == {[remoteAddr |-> ip, forwarded |-> <<>>] : ip \in Callers}

IdleReq ==
    [pc |-> "idle", ip |-> 0, remoteAddr |-> <<>>, forwarded |-> <<>>,
     host |-> <<>>, call |-> DefaultCall, p |-> NoParams,
     rl |-> 0, resp |-> 0, why |-> "none"]

(* The handler returns: its locals are gone; the request as sent and the   *)
(* response are kept.                                                      *)
Reply(q, code, why) ==
    [req EXCEPT ![q] = [IdleReq EXCEPT !.pc = "done", !.ip = req[q].ip,
                                       !.remoteAddr = req[q].remoteAddr,
                                       !.forwarded = req[q].forwarded,
                                       !.host = req[q].host,
                                       !.call = req[q].call, !.p = req[q].p,
                                       !.resp = code, !.why = why]]

(* The literals of lines 755-768.                                          *)
DefaultRate == 10
MaxRate == 100
MaxThreshold == 100

(* max_concurrent_requests as decoded (omitempty, line 642): zero when the *)
(* request does not carry it.                                              *)
RequestedRate(p) == IF "rate" \in DOMAIN p THEN p.rate ELSE 0

(* The same without the cap of lines 758-760 (a variant, not the code's).  *)
maxConcurrentRequestsUncapped(m) == IF m <= 0 THEN DefaultRate ELSE m

(* maxConcurrentRequests of lines 754-760.                                 *)
maxConcurrentRequests(m) ==
    LET d == IF m <= 0 THEN DefaultRate ELSE m
    IN  IF d > MaxRate THEN MaxRate ELSE d

(* errorThreshold of lines 762-768, for whole percentages.                 *)
errorThreshold(t) ==
    LET d == IF t < 0 THEN 0 ELSE t
    IN  IF d > MaxThreshold THEN MaxThreshold ELSE d

(* tickerInterval of line 1016 in milliseconds: an integer division.       *)
tickerInterval(m) == 1000 \div m

(* The TestRun built at lines 773-788 and the row SaveTestRun inserts.     *)
NewTestRun(p) ==
    [status |-> "running", completedAt |-> FALSE,
     total |-> 0, success |-> 0, error |-> 0, stoppedByCircuit |-> FALSE,
     avg |-> FZero, min |-> FZero, max |-> FZero,
     users |-> p.users, ramp |-> p.ramp, duration |-> p.duration,
     maxConcurrentRequests |-> maxConcurrentRequests(RequestedRate(p)),
     threshold |-> errorThreshold(p.threshold), host |-> ExampleCom]

RunningRow ==
    [status |-> "running", completedAt |-> FALSE, total |-> 0, success |-> 0, error |-> 0,
     avg |-> FZero, min |-> FZero, max |-> FZero]

NewContext == [done |-> FALSE, isRunning |-> TRUE]

NewMetrics ==
    [total |-> 0, success |-> 0, error |-> 0, latencies |-> <<>>, timeSeries |-> <<>>]

----------------------------------------------------------------------------
(* HandleStartTest, one action per critical section.                       *)

(* Decode and validate the request (lines 627-707). Requests are numbered  *)
(* in the order they arrive.                                               *)
ValidateBody(q, conns, hosts, params, calls) ==
    /\ req[q].pc = "idle"
    /\ \A r \in Reqs : r < q => req[r].pc # "idle"
    /\ \E conn \in conns, host \in hosts, p \in params, c \in calls :
          LET read == [IdleReq EXCEPT !.ip = clientIP(conn.remoteAddr, conn.forwarded),
                                      !.remoteAddr = conn.remoteAddr,
                                      !.forwarded = conn.forwarded,
                                      !.host = host, !.call = c, !.p = p]
          IN  IF ~HostAccepted(host)
              THEN req' = [req EXCEPT ![q] = [read EXCEPT !.pc = "done", !.resp = 400,
                                                          !.why = "host"]]
              ELSE IF ValidLimits(p) /\ ValidCall(c)
              THEN req' = [req EXCEPT ![q] = [read EXCEPT !.pc = "global"]]
              ELSE req' = [req EXCEPT ![q] = [read EXCEPT !.pc = "done", !.resp = 400,
                                                          !.why = "validation"]]
    /\ UNCHANGED <<now, lastTestStarts, okStarts, gReg, gDesc, gCtx, gRun, gHttp, gSink>>

ReqValidate(q) == ValidateBody(q, CallerConns, {ExampleCom}, ParamSet, {DefaultCall})

(* Global cap: read len(activeTests) under RLock (lines 709-717).          *)
GlobalCapReached == Cardinality(activeTests) >= MaxConcurrentTests

ReqCheckGlobal(q) ==
    /\ req[q].pc = "global"
    /\ IF GlobalCapReached
       THEN req' = Reply(q, 503, "global")
       ELSE req' = [req EXCEPT ![q].pc = "perip"]
    /\ UNCHANGED <<now, lastTestStarts, okStarts, gReg, gDesc, gCtx, gRun, gHttp, gSink>>

(* Per-IP cap under testsPerIPMu (lines 727-740).                          *)
IPCapReached(ip) ==
    ip \in DOMAIN testsPerIP /\ Cardinality(testsPerIP[ip]) >= MaxTestsPerIP

ReqCheckPerIP(q) ==
    /\ req[q].pc = "perip"
    /\ IF IPCapReached(req[q].ip)
       THEN req' = Reply(q, 429, "perip")
       ELSE req' = [req EXCEPT ![q].pc = "rate"]
    /\ UNCHANGED <<now, lastTestStarts, okStarts, gReg, gDesc, gCtx, gRun, gHttp, gSink>>

(* Rate limiter: check and set under rateLimitMu (lines 742-751).          *)
RateLimited(ip) ==
    ip \in DOMAIN lastTestStarts /\ now - lastTestStarts[ip] < RateLimitSeconds

ReqRateLimit(q) ==
    /\ req[q].pc = "rate"
    /\ LET ip == req[q].ip IN
       IF RateLimited(ip)
       THEN /\ req' = Reply(q, 429, "rate")
            /\ UNCHANGED lastTestStarts
       ELSE /\ lastTestStarts' = Put(lastTestStarts, ip, now)
            /\ req' = [req EXCEPT ![q].pc = "save", ![q].rl = now]
    /\ UNCHANGED <<now, okStarts, gReg, gDesc, gCtx, gRun, gHttp, gSink>>

(* A variant that goes on after a failed SaveTestRun (not the code's).     *)
ReqSaveErrorIgnored(q) ==
    /\ req[q].pc = "save"
    /\ \E stored \in BOOLEAN :
          db' = IF stored THEN Put(db, NewUUID(q), RunningRow) ELSE db
    /\ testRun' = Put(testRun, NewUUID(q),
                      [NewTestRun(req[q].p) EXCEPT !.host = req[q].host])
    /\ calcCount' = Put(calcCount, NewUUID(q), 0)
    /\ updateFailed' = Put(updateFailed, NewUUID(q), FALSE)
    /\ okStarts' = [okStarts EXCEPT ![req[q].ip] = @ \cup {req[q].rl}]
    /\ req' = [req EXCEPT ![q].pc = "register"]
    /\ UNCHANGED <<now, lastTestStarts, gReg, gCtx, gRun, gHttp, gSink>>

(* Build the descriptor and SaveTestRun; the insert may fail (753-796).    *)
ReqSave(q) ==
    /\ req[q].pc = "save"
    /\ \/ /\ db' = Put(db, NewUUID(q), RunningRow)
          /\ testRun' = Put(testRun, NewUUID(q),
                             [NewTestRun(req[q].p) EXCEPT !.host = req[q].host])
          /\ calcCount' = Put(calcCount, NewUUID(q), 0)
          /\ updateFailed' = Put(updateFailed, NewUUID(q), FALSE)
          /\ okStarts' = [okStarts EXCEPT ![req[q].ip] = @ \cup {req[q].rl}]
          /\ req' = [req EXCEPT ![q].pc = "register"]
       \/ /\ req' = Reply(q, 500, "save")
          /\ UNCHANGED <<gDesc, okStarts>>
    /\ UNCHANGED <<now, lastTestStarts, gReg, gCtx, gRun, gHttp, gSink>>

(* Create the context and the collector, enter the registry (798-825).     *)
ReqRegister(q) ==
    /\ req[q].pc = "register"
    /\ tctx' = Put(tctx, NewUUID(q), NewContext)
    /\ metrics' = Put(metrics, NewUUID(q), NewMetrics)
    /\ activeTests' = activeTests \cup {NewUUID(q)}
    /\ req' = [req EXCEPT ![q].pc = "track"]
    /\ UNCHANGED <<now, lastTestStarts, okStarts, testsPerIP, gDesc, sup, gRun, gHttp, gSink>>

(* Enter the per-IP table, launch runLoadTest, answer (lines 827-849).     *)
TrackForIP(ip, u) ==
    Put(testsPerIP, ip, (IF ip \in DOMAIN testsPerIP THEN testsPerIP[ip] ELSE {}) \cup {u})

ReqTrack(q) ==
    /\ req[q].pc = "track"
    /\ testsPerIP' = TrackForIP(req[q].ip, NewUUID(q))
    /\ sup' = Put(sup, NewUUID(q), [pc |-> "start", ip |-> req[q].ip])
    /\ req' = Reply(q, 200, "started")
    /\ UNCHANGED <<now, lastTestStarts, okStarts, activeTests, gDesc, tctx, metrics, gRun, gHttp, gSink>>

----------------------------------------------------------------------------
(* calculateAndSaveMetrics (lines 1248-1294): copy the counters into the   *)
(* descriptor, mark it completed, UpdateTestRun; a failed update is only   *)
(* logged.                                                                 *)
(* The same copy without the status and completed_at (a variant, not the   *)
(* code's).                                                                *)
CalcTotalsOnly(u) ==
    [testRun EXCEPT ![u].total = metrics[u].total,
                    ![u].success = metrics[u].success,
                    ![u].error = metrics[u].error]

(* One iteration of the loop of lines 1265-1274.                           *)
LatencyStep(a, lat) ==
    [sum |-> FAdd(a.sum, lat),
     min |-> IF FLess(lat, a.min) THEN lat ELSE a.min,
     max |-> IF FLess(a.max, lat) THEN lat ELSE a.max]

(* The loop of lines 1261-1276 over the first k latencies: the running     *)
(* sum, minimum and maximum. Each iteration starts from the one value the  *)
(* previous iteration left.                                                *)
RECURSIVE LatencyFold(_, _)
LatencyFold(l, k) ==
    IF k = 0
    THEN [sum |-> FZero, min |-> l[1], max |-> l[1]]
    ELSE CHOOSE r \in {LatencyStep(a, l[k]) : a \in {LatencyFold(l, k - 1)}} : TRUE

(* avgLatency, minLatency, maxLatency of lines 1261-1276: zero for no      *)
(* latencies, else sum / float64(len) and the extremes.                    *)
CalcLatency(l) ==
    IF Len(l) = 0
    THEN [avg |-> FZero, min |-> FZero, max |-> FZero]
    ELSE CHOOSE r \in {[avg |-> FDivInt(a.sum, Len(l)), min |-> a.min, max |-> a.max] :
                         a \in {LatencyFold(l, Len(l))}} : TRUE

CalcTestRunWith(u, lat) ==
    [testRun EXCEPT ![u].status = "completed", ![u].completedAt = TRUE,
                    ![u].total = metrics[u].total,
                    ![u].success = metrics[u].success,
                    ![u].error = metrics[u].error,
                    ![u].avg = lat.avg, ![u].min = lat.min, ![u].max = lat.max]

CalcTestRun(u) ==
    CHOOSE t \in {CalcTestRunWith(u, lat) : lat \in {CalcLatency(metrics[u].latencies)}} :
        TRUE

UpdatedRow(t) ==
    [status |-> t.status, completedAt |-> t.completedAt,
     total |-> t.total, success |-> t.success, error |-> t.error,
     avg |-> t.avg, min |-> t.min, max |-> t.max]

CalculateAndSaveMetrics(u) ==
    /\ testRun' = CalcTestRun(u)
    /\ \E stored \in BOOLEAN :
          /\ db' = IF stored THEN [db EXCEPT ![u] = UpdatedRow(testRun'[u])] ELSE db
          /\ updateFailed' = [updateFailed EXCEPT ![u] = ~stored]
    /\ calcCount' = [calcCount EXCEPT ![u] = @ + 1]

----------------------------------------------------------------------------
(* runLoadTest's deferred function (lines 852-887).                        *)
SupFinalize(u) ==
    /\ sup[u].pc = "final"
    /\ CalculateAndSaveMetrics(u)
    /\ tctx' = [tctx EXCEPT ![u].isRunning = FALSE]
    /\ sup' = [sup EXCEPT ![u].pc = "unregister"]
    /\ UNCHANGED <<gAdm, gReg, metrics, gRun, gHttp, gSink>>

SupUnregister(u) ==
    /\ sup[u].pc = "unregister"
    /\ activeTests' = activeTests \ {u}
    /\ sup' = [sup EXCEPT ![u].pc = "untrack"]
    /\ UNCHANGED <<gAdm, testsPerIP, gDesc, tctx, metrics, gRun, gHttp, gSink>>

(* The same without the removal of an emptied entry (a variant, not the   *)
(* code's).                                                                *)
UntrackKeepsEntry(ip, u) ==
    IF ip \in DOMAIN testsPerIP
    THEN [testsPerIP EXCEPT ![ip] = @ \ {u}]
    ELSE testsPerIP

UntrackForIP(ip, u) ==
    IF ip \in DOMAIN testsPerIP
    THEN IF testsPerIP[ip] \ {u} = {}
         THEN Drop(testsPerIP, ip)
         ELSE [testsPerIP EXCEPT ![ip] = @ \ {u}]
    ELSE testsPerIP

SupUntrack(u) ==
    /\ sup[u].pc = "untrack"
    /\ testsPerIP' = UntrackForIP(sup[u].ip, u)
    /\ sup' = [sup EXCEPT ![u].pc = "done"]
    /\ UNCHANGED <<gAdm, activeTests, gDesc, tctx, metrics, gRun, gHttp, gSink>>

(* The body of runLoadTest (lines 889-1001) as one step: the run ends.     *)
(* At most MaxEnded runs end within the window.                            *)
RunBodyEnds(u) ==
    /\ sup[u].pc \in {"start", "wait"}
    /\ Cardinality({v \in DOMAIN sup : sup[v].pc \notin {"start", "wait"}}) < MaxEnded
    /\ sup' = [sup EXCEPT ![u].pc = "final"]
    /\ UNCHANGED <<gAdm, gReg, gDesc, tctx, metrics, gRun, gHttp, gSink>>

----------------------------------------------------------------------------
(* Time passes. Only the limiter reads the clock, so the clock is advanced *)
(* when a request is about to read it.                                     *)
Tick ==
    /\ now < MaxTime
    /\ \E q \in Reqs : req[q].pc = "rate"
    /\ now' = now + 1
    /\ UNCHANGED <<lastTestStarts, req, okStarts, gReg, gDesc, gCtx, gRun, gHttp, gSink>>

----------------------------------------------------------------------------
(* The detailed run is not used by the admission specification.            *)
(* The requests of the users in us are traced: open is the set of the      *)
(* issuance numbers of a user's requests that were issued and not yet      *)
(* handed to the sink, emitted the pairs <<user, issuance number>> in the  *)
(* order they were handed to the sink.                                     *)
Traced(us) == [open |-> [i \in us |-> {}], emitted |-> <<>>]
NoFlight == Traced({})

(* User i issues the request with issuance number n.                       *)
Issue(i, n) ==
    IF i \in DOMAIN flight.open THEN [flight EXCEPT !.open[i] = @ \cup {n}] ELSE flight

(* User i hands its oldest open request to the sink.                       *)
Oldest(i) == CHOOSE n \in flight.open[i] : \A m \in flight.open[i] : n <= m

Emit(i) ==
    IF i \in DOMAIN flight.open /\ flight.open[i] # {}
    THEN [flight EXCEPT !.open[i] = @ \ {Oldest(i)},
                        !.emitted = Append(@, <<i, Oldest(i)>>)]
    ELSE flight

NoRamp == [pc |-> "none", started |-> 0, elapsed |-> 0, target |-> 0, ups |-> FZero]
NoSampler == [pc |-> "exit", points |-> 0]
NoBreaker == [pc |-> "none", stopped |-> FALSE, total |-> 0, error |-> 0, first |-> FALSE]
(* The locals calculateAndSaveMetrics fills at lines 1252-1278.            *)
NoRead == [total |-> 0, success |-> 0, error |-> 0, lat |-> CalcLatency(<<>>)]

NoStops == [pc |-> "idle", ok |-> 0, resp |-> 0, read |-> NoRead]

(* No metrics request was made: the handler's locals totalRequests,        *)
(* successCount and errorCount of lines 1425-1427.                         *)
NoSnap == [pc |-> "idle", total |-> 0, success |-> 0, error |-> 0, answered |-> 0]

(* The manager some time after construction: caller 1 has c runs active,   *)
(* started one rate-limit window ago, and other callers hold b more.       *)
InitAdm ==
    \E c \in {0, MaxTestsPerIP - 1}, full \in BOOLEAN :
      LET b == IF full THEN MaxConcurrentTests - 1 - c ELSE 0
          pre == PreRuns(c)
          mine == IF c = 0 THEN {} ELSE {1}
      IN
      /\ now = 0
      /\ lastTestStarts = [ip \in mine \cup BgIPs(b) |-> 0 - RateLimitSeconds]
      /\ activeTests = pre \cup BgRuns(b)
      /\ testsPerIP = [ip \in mine \cup BgIPs(b) |->
                          IF ip \in mine THEN pre
                          ELSE {u \in BgRuns(b) : BgOwner(u) = ip}]
      /\ db = [u \in pre |-> RunningRow]
      /\ testRun = [u \in pre |-> NewTestRun(CHOOSE p \in ParamSet : ValidLimits(p))]
      /\ tctx = [u \in pre |-> NewContext]
      /\ metrics = [u \in pre |-> NewMetrics]
      /\ sup = [u \in pre |-> [pc |-> "wait", ip |-> 1]]
      /\ calcCount = [u \in pre |-> 0]
      /\ updateFailed = [u \in pre |-> FALSE]
      /\ req = [q \in Reqs |-> IdleReq]
      /\ okStarts = [ip \in Callers |-> IF ip \in mine THEN {0 - RateLimitSeconds} ELSE {}]
      /\ stopChan = FALSE
      /\ ramp = NoRamp
      /\ user = << >>
      /\ wg = 0
      /\ sampler = NoSampler
      /\ cb = NoBreaker
      /\ issued = 0
      /\ targetURL = << >>
      /\ flight = NoFlight
      /\ endedBy = "none"
      /\ stopLog = NoStops
      /\ snap = NoSnap
      /\ proc = "serving"
      /\ requestMetrics = <<>>
      /\ saveErrors = 0

NextAdm ==
    \/ \E q \in Reqs : ReqValidate(q)
    \/ \E q \in Reqs : ReqCheckGlobal(q)
    \/ \E q \in Reqs : ReqCheckPerIP(q)
    \/ \E q \in Reqs : ReqRateLimit(q)
    \/ \E q \in Reqs : ReqSave(q)
    \/ \E q \in Reqs : ReqRegister(q)
    \/ \E q \in Reqs : ReqTrack(q)
    \/ \E u \in DOMAIN sup : RunBodyEnds(u)
    \/ \E u \in DOMAIN sup : SupFinalize(u)
    \/ \E u \in DOMAIN sup : SupUnregister(u)
    \/ \E u \in DOMAIN sup : SupUntrack(u)
    \/ Tick

SpecAdm == InitAdm /\ [][NextAdm]_vars

----------------------------------------------------------------------------
(* Start requests with targets of many shapes, on an idle manager.         *)

(* The targets named by the specification's acceptance list; the empty     *)
(* string is the sixth.                                                    *)
ListedLoopback ==
    <<"h", "t", "t", "p", ":", "/", "/", "1", "2", "7", ".", "0", ".", "0",
      ".", "1">>
ListedPrivate ==
    <<"h", "t", "t", "p", ":", "/", "/", "1", "0", ".", "0", ".", "0", ".",
      "1">>
ListedMetadata ==
    <<"h", "t", "t", "p", ":", "/", "/", "1", "6", "9", ".", "2", "5", "4",
      ".", "1", "6", "9", ".", "2", "5", "4", "/", "l", "a", "t", "e",
      "s", "t", "/", "m", "e", "t", "a", "-", "d", "a", "t", "a">>
ListedFile ==
    <<"f", "i", "l", "e", ":", "/", "/", "/", "e", "t", "c", "/", "p", "a",
      "s", "s", "w", "d">>
ListedFtp ==
    <<"f", "t", "p", ":", "/", "/", "e", "x", "a", "m", "p", "l", "e", ".",
      "c", "o", "m">>

ListedTargets ==
    {ListedLoopback, ListedPrivate, ListedMetadata, ListedFile, ListedFtp, <<>>}

(* Targets whose hostname is an address in 169.254.0.0/16 other than the   *)
(* enumerated metadata addresses.                                          *)
LinkLocalTargets ==
    { <<"h", "t", "t", "p", ":", "/", "/", "1", "6", "9", ".", "2", "5",
        "4", ".", "1", ".", "1">>,
      <<"1", "6", "9", ".", "2", "5", "4", ".", "0", ".", "7", ":", "8",
        "0", "8", "0">> }

OtherTargets ==
    { <<" ", " ">>,
      <<"l", "o", "c", "a", "l", "h", "o", "s", "t", ":", "8", "0", "8",
        "0">>,
      <<"H", "T", "T", "P", ":", "/", "/", "l", "o", "c", "a", "l", "h",
        "o", "s", "t">>,
      <<"h", "t", "t", "p", ":", "/", "/", "[", ":", ":", "1", "]", ":",
        "8", "0">>,
      <<"h", "t", "t", "p", ":", "/", "/", "u", "s", "e", "r", "@", "1",
        "9", "2", ".", "1", "6", "8", ".", "1", ".", "1", "/">>,
      <<"1", "7", "2", ".", "1", "6", ".", "0", ".", "1">>,
      <<"1", "7", "2", ".", "3", "2", ".", "0", ".", "1">>,
      <<"1", "0", "0", ".", "1", "0", "0", ".", "1", "0", "0", ".", "2",
        "0", "0">>,
      <<"m", "e", "t", "a", "d", "a", "t", "a", ".", "g", "o", "o", "g",
        "l", "e", ".", "i", "n", "t", "e", "r", "n", "a", "l">>,
      <<"h", "t", "t", "p", "s", ":", "/", "/", "e", "x", "a", "m", "p",
        "l", "e", ".", "c", "o", "m", "/", "p", "a", "t", "h", "?",
        "q", "=", "1">>,
      <<"h", "t", "t", "p", ":", "/", "/", "e", "x", "a", "m", "p", "l",
        "e", ".", "c", "o", "m", ":", "8", "0", "a">>,
      <<":", "/", "/", "e", "x", "a", "m", "p", "l", "e", ".", "c", "o",
        "m">>,
      <<"1", "6", "9", ".", "2", "5", "4", ".", "1", "6", "9", ".", "1",
        "2", "3">> }

HostTargets == ListedTargets \cup LinkLocalTargets \cup OtherTargets \cup {ExampleCom}

InitHost == InitAdm /\ activeTests = {}

HostValidate(q) ==
    ValidateBody(q, CallerConns, HostTargets, {CHOOSE p \in ParamSet : ValidLimits(p)}, {DefaultCall})

NextHost ==
    \/ \E q \in Reqs : HostValidate(q)
    \/ \E q \in Reqs : ReqCheckGlobal(q)
    \/ \E q \in Reqs : ReqCheckPerIP(q)
    \/ \E q \in Reqs : ReqRateLimit(q)
    \/ \E q \in Reqs : ReqSave(q)
    \/ \E q \in Reqs : ReqRegister(q)
    \/ \E q \in Reqs : ReqTrack(q)

SpecHost == InitHost /\ [][NextHost]_vars

----------------------------------------------------------------------------
(* Start requests with limits and methods of many shapes, on an idle       *)
(* manager.                                                                *)

(* Numeric fields at and beyond each limit of lines 663-683.               *)
LimitParams ==
    { [users |-> n, ramp |-> 0, duration |-> 1, threshold |-> 0] :
          n \in {MinUsers - 1, MinUsers, MaxUsers, MaxUsers + 1} }
      \cup { [users |-> 1, ramp |-> 0, duration |-> d, threshold |-> 0] :
               d \in {MinDuration - 1, MaxDuration, MaxDuration + 1} }
      \cup { [users |-> 1, ramp |-> r, duration |-> MaxDuration, threshold |-> 0] :
               r \in {MinRampUpSec - 1, MaxRampUpSec, MaxRampUpSec + 1} }
      \cup { [users |-> 1, ramp |-> MinDuration + 1, duration |-> MinDuration,
              threshold |-> 0] }

(* Methods in several letter cases, unknown methods, with and without a    *)
(* body.                                                                   *)
CallMethods ==
    { <<>>, MethodGet, MethodHead, <<"g", "e", "t">>, <<"h", "e", "a", "d">>,
      <<"P", "o", "s", "t">>,
      <<"O", "P", "T", "I", "O", "N", "S">>,
      <<"D", "E", "L", "E", "T", "E">>,
      <<"T", "R", "A", "C", "E">>,
      <<"C", "O", "N", "N", "E", "C", "T">> }

CallBodies == { <<>>, <<"{", "}">> }

CallSet == [method : CallMethods, body : CallBodies]

LimValidate(q) == ValidateBody(q, CallerConns, {ExampleCom}, LimitParams, {DefaultCall})

CallValidate(q) ==
    ValidateBody(q, CallerConns, {ExampleCom}, {CHOOSE p \in ParamSet : ValidLimits(p)}, CallSet)

NextLim ==
    \/ \E q \in Reqs : LimValidate(q)
    \/ \E q \in Reqs : CallValidate(q)
    \/ \E q \in Reqs : ReqCheckGlobal(q)
    \/ \E q \in Reqs : ReqCheckPerIP(q)
    \/ \E q \in Reqs : ReqRateLimit(q)
    \/ \E q \in Reqs : ReqSave(q)
    \/ \E q \in Reqs : ReqRegister(q)
    \/ \E q \in Reqs : ReqTrack(q)

SpecLim == InitHost /\ [][NextLim]_vars

----------------------------------------------------------------------------
(* One run in detail: runLoadTest and its goroutines (lines 851-1091).     *)

(* Bounds of the detailed run.                                             *)
MaxN == 2
MaxRampUp == 1
MaxRequests == 1
MaxPoints == 1
MaxStops == 1
WarmErrors == 4
WarmExtra == 1
RampStep == 5

(* The 100 ms ramp ticker (line 904): ticks per second.                    *)
RampTicksPerSec == 10

(* The run that is followed, and an identifier no run has.                 *)
F == CHOOSE u \in PreRuns(1) : TRUE
Unknown == F - 1

N == testRun[F].users
R == testRun[F].ramp
T == testRun[F].threshold

Users == 1..MaxN

(* Requests recorded before the window opens, for a run observed just      *)
(* below the circuit breaker's warm-up floor.                              *)
WarmRequests == CircuitMinRequests - 1

(* Start of runLoadTest: wait group, stopChan, the ramp goroutine, the     *)
(* circuit-breaker ticker and goroutine (lines 889-988).                   *)
(* usersPerSecond := float64(TotalUsers) / float64(RampUpSec) (line 896):  *)
(* a float64 division, which yields +Inf for a zero divisor.               *)
usersPerSecond(n, r) == IF r = 0 THEN FInf ELSE FDivInt(FloatOfInt(n), r)

SupStart ==
    /\ sup[F].pc = "start"
    /\ ramp' = [NoRamp EXCEPT !.pc = "select", !.ups = usersPerSecond(N, R)]
    /\ cb' = [NoBreaker EXCEPT !.pc = "start"]
    /\ sup' = [sup EXCEPT ![F].pc = "wait"]
    /\ UNCHANGED <<gAdm, gReg, gDesc, tctx, metrics, stopChan, user, wg, sampler,
                   issued, targetURL, flight, endedBy, gHttp, gSink>>

(* Ramp scheduler (lines 903-948). elapsed is in ticks of 100 ms; the      *)
(* scheduler is followed at every RampStep-th tick.                        *)
RampOver(e) == e >= R * RampTicksPerSec

(* time.Since(rampUpStart).Seconds() at tick e (line 914): Duration's      *)
(* Seconds is float64(sec) + float64(nsec) / 1e9, and for a whole number   *)
(* of ticks float64(nsec) / 1e9 is the fraction of the second in ticks     *)
(* divided by RampTicksPerSec, both being the one rounding of an exact     *)
(* quotient.                                                               *)
Seconds(e) ==
    FAdd(FloatOfInt(e \div RampTicksPerSec),
         FDivInt(FloatOfInt(e % RampTicksPerSec), RampTicksPerSec))

(* floor(t * N / R) at tick e, in exact arithmetic (not the code's).       *)
TargetUsersExact(e) == (e * N) \div (R * RampTicksPerSec)

(* targetUsers := int(elapsed * usersPerSecond) (line 931).                *)
TargetUsers(e) == FTrunc(FMul(Seconds(e), ramp.ups))

RampTickBody(step) ==
    /\ ramp.pc = "select"
    /\ LET e == ramp.elapsed + step IN
          IF RampOver(e)
          THEN ramp' = [ramp EXCEPT !.pc = "burst", !.elapsed = e]
          ELSE IF TargetUsers(e) > ramp.started
               THEN ramp' = [ramp EXCEPT !.pc = "batch", !.elapsed = e,
                                         !.target = TargetUsers(e)]
               ELSE ramp' = [ramp EXCEPT !.elapsed = e]
    /\ UNCHANGED <<gAdm, gReg, gDesc, gCtx, stopChan, user, wg, sampler, cb,
                   issued, targetURL, flight, endedBy, gHttp, gSink>>

RampTick == RampTickBody(RampStep)

(* The outer select takes ctx.Done or stopChan (lines 910-913).            *)
RampReturn ==
    /\ ramp.pc = "select"
    /\ tctx[F].done \/ stopChan
    /\ ramp' = [ramp EXCEPT !.pc = "done"]
    /\ UNCHANGED <<gAdm, gReg, gDesc, gCtx, stopChan, user, wg, sampler, cb,
                   issued, targetURL, flight, endedBy, gHttp, gSink>>

(* Where the scheduler goes after launching user number k.                 *)
AfterLaunch(k) ==
    IF k >= N THEN "done"
    ELSE IF ramp.pc = "burst" THEN "burst"
    ELSE IF k >= ramp.target THEN "select"
    ELSE "batch"

(* One iteration of a launch loop (lines 918-927, 935-944): the select     *)
(* looks at ctx.Done only, then wg.Add(1) and go runUser.                  *)
RampLaunch ==
    /\ ramp.pc \in {"burst", "batch"}
    /\ IF tctx[F].done
       THEN /\ ramp' = [ramp EXCEPT !.pc = "done"]
            /\ UNCHANGED <<user, wg, targetURL>>
       ELSE /\ ramp' = [ramp EXCEPT !.pc = AfterLaunch(ramp.started + 1),
                                    !.started = ramp.started + 1]
            /\ user' = [user EXCEPT ![ramp.started + 1] = "select"]
            /\ targetURL' = [targetURL EXCEPT
                                ![ramp.started + 1] = normalizeHost(testRun[F].host)]
            /\ wg' = wg + 1
    /\ UNCHANGED <<gAdm, gReg, gDesc, gCtx, stopChan, sampler, cb, issued, flight, endedBy,
                   gHttp, gSink>>

(* Latencies in ms as runUser computes them (line 1063): 0.7, 1 and 2.5.   *)
Ms07 == [e |-> -53, hi |-> 46976204, lo |-> 107374182]
Ms1 == [e |-> -52, hi |-> 33554432, lo |-> 0]
Ms25 == [e |-> -51, hi |-> 41943040, lo |-> 0]

(* What the requests of the detailed run can return: one latency, and      *)
(* sample writes that succeed.                                             *)
RunLatencies == {Ms1}
RunSaves == {TRUE}

(* A trim that keeps the oldest k entries (a variant, not the code's).     *)
KeepFirst(l, k) == IF Len(l) > k THEN SubSeq(l, 1, k) ELSE l

(* A slice after an append and the trim to its last k entries (lines       *)
(* 1766-1770 for the reservoir, 1826-1830 for the ring).                   *)
KeepLast(l, k) == IF Len(l) > k THEN SubSeq(l, Len(l) - k + 1, Len(l)) ELSE l

(* MetricsCollector.Record (lines 1757-1772).                              *)
Record(m, latency, success) ==
    [m EXCEPT !.total = @ + 1,
              !.success = IF success THEN @ + 1 ELSE @,
              !.error = IF success THEN @ ELSE @ + 1,
              !.latencies = KeepLast(Append(@, latency), MaxLatencySamples)]

(* http.NewRequestWithContext (line 1040) fails when url.Parse rejects the *)
(* target; the method was validated at admission.                          *)
NewRequestFails(url) == Parse(url).err

(* runUser (lines 1004-1091). The pacing ticker is taken: a request is     *)
(* built on ctx and sent; on a cancelled ctx it can only fail. A request   *)
(* that cannot be built is recorded as a failure and the loop continues    *)
(* (1041-1044). At most budget requests are issued within the window.      *)
(* A user that issues a request while its previous one is in flight (a   *)
(* variant, not the code's).                                               *)
TickBodyPipelined(i, budget) ==
    /\ user[i] \in {"select", "req"}
    /\ issued < budget
    /\ IF NewRequestFails(targetURL[i])
       THEN /\ \E latency \in RunLatencies :
                  metrics' = [metrics EXCEPT ![F] = Record(metrics[F], latency, FALSE)]
            /\ UNCHANGED <<user, flight>>
       ELSE /\ user' = [user EXCEPT ![i] = IF tctx[F].done THEN "reqc" ELSE "req"]
            /\ flight' = Issue(i, issued + 1)
            /\ UNCHANGED metrics
    /\ issued' = issued + 1
    /\ UNCHANGED <<gAdm, gReg, gDesc, tctx, sup, stopChan, ramp, wg, sampler, cb, targetURL,
                   endedBy, gHttp, gSink>>

TickBody(i, budget) ==
    /\ user[i] = "select"
    /\ issued < budget
    /\ IF NewRequestFails(targetURL[i])
       THEN /\ \E latency \in RunLatencies :
                  metrics' = [metrics EXCEPT ![F] = Record(metrics[F], latency, FALSE)]
            /\ UNCHANGED <<user, flight>>
       ELSE /\ user' = [user EXCEPT ![i] = IF tctx[F].done THEN "reqc" ELSE "req"]
            /\ flight' = Issue(i, issued + 1)
            /\ UNCHANGED metrics
    /\ issued' = issued + 1
    /\ UNCHANGED <<gAdm, gReg, gDesc, tctx, sup, stopChan, ramp, wg, sampler, cb, targetURL,
                   endedBy, gHttp, gSink>>

UserTick(i) == TickBody(i, MaxRequests)

(* Timestamps are in milliseconds; the clock now counts whole seconds.     *)
MsPerSec == 1000

(* What client.Do returns (line 1061): an error without a response, a      *)
(* response with its status, or the error of the redirect policy together  *)
(* with the last response.                                                 *)
TransportFailure == [err |-> TRUE, resp |-> FALSE, status |-> 0]
RedirectFailure == [err |-> TRUE, resp |-> TRUE, status |-> 302]
Answer(code) == [err |-> FALSE, resp |-> TRUE, status |-> code]

(* The outcomes in the detailed run: an answer 200 or a transport failure. *)
RunOutcomes == {Answer(200), TransportFailure}

(* A variant that takes every response for a success (not the code's).     *)
SuccessAnyStatus(o) == ~o.err /\ o.resp

(* success and statusCode (lines 1065-1075).                               *)
Success(o) == ~o.err /\ o.resp /\ o.status < 400
StatusCode(o) == IF o.resp THEN o.status ELSE 0

(* A variant of SaveRequestMetric that stores success = 1 in every row     *)
(* (not the code's).                                                       *)
SaveRowAlwaysOk(rows, u, ts, success, status, o) ==
    Append(rows, [run |-> u, ts |-> ts, success |-> TRUE, status |-> status, seen |-> o])

(* SaveRequestMetric (lines 436-447): the row a successful INSERT adds.    *)
(* seen is history, not a column: what client.Do had returned.             *)
SaveRequestMetric(rows, u, ts, success, status, o) ==
    Append(rows, [run |-> u, ts |-> ts, success |-> success, status |-> status,
                  seen |-> o])

(* The rows in ascending order of the timestamps in stamps.                *)
RECURSIVE OrderByTimestamp(_, _)
OrderByTimestamp(rows, stamps) ==
    IF stamps = {} THEN <<>>
    ELSE LET t == CHOOSE x \in stamps : \A y \in stamps : x <= y
         IN  SelectSeq(rows, LAMBDA r : r.ts = t) \o OrderByTimestamp(rows, stamps \ {t})

(* GetRequestMetrics (lines 449-474): the rows of one run, ORDER BY        *)
(* timestamp.                                                              *)
GetRequestMetrics(u) ==
    LET rows == SelectSeq(requestMetrics, LAMBDA r : r.run = u)
    IN  OrderByTimestamp(rows, {rows[k].ts : k \in DOMAIN rows})

(* client.Do returns, at once with an error when ctx is cancelled; the     *)
(* sample is recorded and saved with the time of completion, a failed save *)
(* is only logged (lines 1061-1088).                                       *)
CompleteBodyCountsStored(i, lats, saves, outcomes, stamps) ==
    /\ user[i] \in {"req", "reqc"}
    /\ \E o \in outcomes \cup {TransportFailure}, latency \in lats, saved \in saves,
          completedAt \in stamps :
          /\ o \in outcomes \/ user[i] = "reqc"
          /\ user[i] = "reqc" => o = TransportFailure
          /\ IF saved
             THEN /\ metrics' = [metrics EXCEPT ![F] = Record(metrics[F], latency, Success(o))]
                  /\ requestMetrics' = SaveRequestMetric(requestMetrics, F, completedAt,
                                                         Success(o), StatusCode(o), o)
                  /\ UNCHANGED saveErrors
             ELSE /\ saveErrors' = saveErrors + 1
                  /\ UNCHANGED <<requestMetrics, metrics>>
    /\ user' = [user EXCEPT ![i] = "select"]
    /\ flight' = Emit(i)
    /\ UNCHANGED <<gAdm, gReg, gDesc, tctx, sup, stopChan, ramp, wg, sampler, cb,
                   issued, targetURL, endedBy, gHttp>>

CompleteBody(i, lats, saves, outcomes, stamps) ==
    /\ user[i] \in {"req", "reqc"}
    /\ \E o \in outcomes \cup {TransportFailure}, latency \in lats, saved \in saves,
          completedAt \in stamps :
          /\ o \in outcomes \/ user[i] = "reqc"
          /\ user[i] = "reqc" => o = TransportFailure
          /\ metrics' = [metrics EXCEPT ![F] = Record(metrics[F], latency, Success(o))]
          /\ IF saved
             THEN /\ requestMetrics' = SaveRequestMetric(requestMetrics, F, completedAt,
                                                         Success(o), StatusCode(o), o)
                  /\ UNCHANGED saveErrors
             ELSE /\ saveErrors' = saveErrors + 1
                  /\ UNCHANGED requestMetrics
    /\ user' = [user EXCEPT ![i] = "select"]
    /\ flight' = Emit(i)
    /\ UNCHANGED <<gAdm, gReg, gDesc, tctx, sup, stopChan, ramp, wg, sampler, cb,
                   issued, targetURL, endedBy, gHttp>>

UserComplete(i) == CompleteBody(i, RunLatencies, RunSaves, RunOutcomes, {now * MsPerSec})

(* The select takes ctx.Done or stopChan; deferred wg.Done (1005, 1022-25).*)
UserReturn(i) ==
    /\ user[i] = "select"
    /\ tctx[F].done \/ stopChan
    /\ user' = [user EXCEPT ![i] = "returned"]
    /\ wg' = wg - 1
    /\ UNCHANGED <<gAdm, gReg, gDesc, gCtx, stopChan, ramp, sampler, cb, issued, targetURL, flight, endedBy, gHttp, gSink>>

(* collectTimeSeries (lines 1774-1838): a tick of the 1 s ticker. The      *)
(* point is followed by the two counters it is computed from (1786-1787).  *)
(* At most budget ticks fall within the window.                            *)
TimeSeriesPoint(m) == [requests |-> m.total, success |-> m.success]

SampleBody(budget) ==
    /\ sampler.pc = "loop"
    /\ sampler.points < budget
    /\ sampler' = [sampler EXCEPT !.points = @ + 1]
    /\ metrics' = [metrics EXCEPT ![F].timeSeries =
                      KeepLast(Append(@, TimeSeriesPoint(metrics[F])), MaxTimeSeries)]
    /\ UNCHANGED <<gAdm, gReg, gDesc, tctx, sup, stopChan, ramp, user, wg, cb, issued, targetURL, flight,
                   endedBy, gHttp, gSink>>

SamplerTick == SampleBody(MaxPoints)

SamplerExit ==
    /\ sampler.pc = "loop"
    /\ tctx[F].done
    /\ sampler' = [sampler EXCEPT !.pc = "exit"]
    /\ UNCHANGED <<gAdm, gReg, gDesc, gCtx, stopChan, ramp, user, wg, cb, issued, targetURL, flight, endedBy, gHttp, gSink>>

(* Circuit-breaker goroutine (lines 954-988).                              *)
CbStart ==
    /\ cb.pc = "start"
    /\ cb' = [cb EXCEPT !.pc = IF T <= 0 THEN "exit" ELSE "loop"]
    /\ UNCHANGED <<gAdm, gReg, gDesc, gCtx, stopChan, ramp, user, wg, sampler,
                   issued, targetURL, flight, endedBy, gHttp, gSink>>

CbExit ==
    /\ cb.pc = "loop"
    /\ tctx[F].done
    /\ cb' = [cb EXCEPT !.pc = "exit"]
    /\ UNCHANGED <<gAdm, gReg, gDesc, gCtx, stopChan, ramp, user, wg, sampler,
                   issued, targetURL, flight, endedBy, gHttp, gSink>>

(* A tick of the 2 s ticker is received and TotalRequests is read (965).   *)
CbReadTotal ==
    /\ cb.pc = "loop"
    /\ ~cb.stopped
    /\ cb' = [cb EXCEPT !.pc = "read", !.total = metrics[F].total]
    /\ UNCHANGED <<gAdm, gReg, gDesc, gCtx, stopChan, ramp, user, wg, sampler,
                   issued, targetURL, flight, endedBy, gHttp, gSink>>

(* The judgement without the warm-up floor (a variant, not the code's).    *)
CircuitTripsNoFloor(total, error, threshold) ==
    /\ total > 0
    /\ error * 100 >= threshold * total

(* totalReqs >= 10 and errorCount / totalReqs * 100 >= ErrorThreshold.     *)
CircuitTrips(total, error, threshold) ==
    /\ total >= CircuitMinRequests
    /\ error * 100 >= threshold * total

(* ErrorCount is read and the rate is judged (lines 966-985). first notes   *)
(* that this Cancel is the one that cancelled the scope.                   *)
CbDecide ==
    /\ cb.pc = "read"
    /\ IF CircuitTrips(cb.total, metrics[F].error, T)
       THEN /\ cb' = [cb EXCEPT !.pc = "exit", !.error = metrics[F].error,
                                  !.first = ~tctx[F].done]
            /\ testRun' = [testRun EXCEPT ![F].stoppedByCircuit = TRUE]
            /\ tctx' = [tctx EXCEPT ![F].done = TRUE]
       ELSE /\ cb' = [cb EXCEPT !.pc = "loop", !.total = 0]
            /\ UNCHANGED <<testRun, tctx>>
    /\ UNCHANGED <<gAdm, gReg, db, calcCount, updateFailed, metrics, sup, stopChan,
                   ramp, user, wg, sampler, issued, targetURL, flight, endedBy, gHttp, gSink>>

(* The supervisor's select (lines 990-1001): ctx.Done or the deadline;     *)
(* either way close(stopChan), then wg.Wait().                             *)
SupCancelled ==
    /\ sup[F].pc = "wait"
    /\ tctx[F].done
    /\ stopChan' = TRUE
    /\ endedBy' = "cancel"
    /\ sup' = [sup EXCEPT ![F].pc = "drain"]
    /\ UNCHANGED <<gAdm, gReg, gDesc, tctx, metrics, ramp, user, wg, sampler, cb,
                   issued, targetURL, flight, gHttp, gSink>>

SupDeadline ==
    /\ sup[F].pc = "wait"
    /\ stopChan' = TRUE
    /\ endedBy' = "deadline"
    /\ sup' = [sup EXCEPT ![F].pc = "drain"]
    /\ UNCHANGED <<gAdm, gReg, gDesc, tctx, metrics, ramp, user, wg, sampler, cb,
                   issued, targetURL, flight, gHttp, gSink>>

(* wg.Wait() returns; the deferred circuitBreakerTicker.Stop() runs before *)
(* the deferred finalization (lines 952, 995, 1000).                       *)
SupDrained ==
    /\ sup[F].pc = "drain"
    /\ wg = 0
    /\ cb' = [cb EXCEPT !.stopped = TRUE]
    /\ sup' = [sup EXCEPT ![F].pc = "final"]
    /\ UNCHANGED <<gAdm, gReg, gDesc, tctx, metrics, stopChan, ramp, user, wg, sampler,
                   issued, targetURL, flight, endedBy, gHttp, gSink>>

(* HandleStopTest (lines 1326-1343): look the run up under RLock ...       *)
StopLookup ==
    /\ stopLog.pc = "idle"
    /\ stopLog.ok < MaxStops
    /\ IF F \in activeTests
       THEN stopLog' = [stopLog EXCEPT !.pc = "calc"]
       ELSE stopLog' = [stopLog EXCEPT !.resp = 404]
    /\ UNCHANGED <<gAdm, gReg, gDesc, gCtx, gRun, snap, proc, gSink>>

(* ... then calculateAndSaveMetrics and answer with the descriptor.        *)
StopCalc ==
    /\ stopLog.pc = "calc"
    /\ CalculateAndSaveMetrics(F)
    /\ stopLog' = [stopLog EXCEPT !.pc = "idle", !.ok = @ + 1, !.resp = 200]
    /\ UNCHANGED <<gAdm, gReg, gCtx, gRun, snap, proc, gSink>>

(* GetTestRunByUUID (lines 327-373): the columns that are selected; the    *)
(* other fields of the TestRun keep their zero values.                     *)
GetTestRunByUUID(u) ==
    [status |-> db[u].status, completedAt |-> db[u].completedAt,
     total |-> db[u].total, success |-> db[u].success, error |-> db[u].error,
     avg |-> db[u].avg, min |-> db[u].min, max |-> db[u].max,
     stoppedByCircuit |-> FALSE]

(* HandleGetStatus (lines 1296-1324): the live descriptor, else the row;   *)
(* the handler writes nothing.                                             *)
StatusResponse(u) ==
    IF u \in activeTests
    THEN [code |-> 200, isRunning |-> tctx[u].isRunning, status |-> testRun[u].status,
          stoppedByCircuit |-> testRun[u].stoppedByCircuit]
    ELSE IF u \in DOMAIN db
         THEN [code |-> 200, isRunning |-> FALSE, status |-> GetTestRunByUUID(u).status,
               stoppedByCircuit |-> GetTestRunByUUID(u).stoppedByCircuit]
         ELSE [code |-> 404, isRunning |-> FALSE, status |-> "none",
               stoppedByCircuit |-> FALSE]

GetStatus(u) ==
    /\ StatusResponse(u).code \in {200, 404}
    /\ UNCHANGED vars

(* HandleGetMetrics (lines 1345-1464), counters and flag: the completed-run *)
(* branch answers from the row and has no stopped_by_circuit key; the      *)
(* live branch reads the collector and the descriptor.                     *)
MetricsResponse(u) ==
    IF u \in activeTests
    THEN [code |-> 200, isRunning |-> tctx[u].isRunning, total |-> metrics[u].total,
          success |-> metrics[u].success, error |-> metrics[u].error,
          stoppedByCircuit |-> testRun[u].stoppedByCircuit]
    ELSE IF u \in DOMAIN db
         THEN [code |-> 200, isRunning |-> FALSE, total |-> GetTestRunByUUID(u).total,
               success |-> GetTestRunByUUID(u).success,
               error |-> GetTestRunByUUID(u).error, stoppedByCircuit |-> FALSE]
         ELSE [code |-> 404, isRunning |-> FALSE, total |-> 0, success |-> 0,
               error |-> 0, stoppedByCircuit |-> FALSE]

(* sort.Float64s (line 1397): the ascending arrangement, built by         *)
(* partitioning around the middle element.                                 *)
RECURSIVE SortFloat64s(_)
SortFloat64s(l) ==
    IF Len(l) <= 1 THEN l
    ELSE LET p == l[(Len(l) + 1) \div 2]
         IN  SortFloat64s(SelectSeq(l, LAMBDA x : FLess(x, p)))
               \o SelectSeq(l, LAMBDA x : ~FLess(x, p) /\ ~FLess(p, x))
               \o SortFloat64s(SelectSeq(l, LAMBDA x : FLess(p, x)))

(* A literal 0.90 (a variant, not the code's).                             *)
P90 == [e |-> -53, hi |-> 60397977, lo |-> 80530637]

(* The float64 literals 0.50, 0.95 and 0.99 of lines 1408-1410.            *)
P50 == [e |-> -53, hi |-> 33554432, lo |-> 0]
P95 == [e |-> -53, hi |-> 63753420, lo |-> 107374182]
P99 == [e |-> -53, hi |-> 66437775, lo |-> 48318382]

(* int(float64(len) * c) (lines 1408-1410).                                *)
PercentileIndex(n, c) == FTrunc(FMulInt(c, n))

(* Lines 1412-1420: the element at that index of the sorted copy when the  *)
(* index is inside it, else the zero value.                                *)
Percentile(sorted, c) ==
    IF PercentileIndex(Len(sorted), c) < Len(sorted)
    THEN sorted[PercentileIndex(Len(sorted), c) + 1]
    ELSE FZero

(* The percentiles of the live branch (lines 1392-1423).                   *)
SnapshotPercentiles(l) ==
    IF Len(l) = 0
    THEN [p50 |-> FZero, p95 |-> FZero, p99 |-> FZero]
    ELSE LET sorted == SortFloat64s(l)
         IN  [p50 |-> Percentile(sorted, P50), p95 |-> Percentile(sorted, P95),
              p99 |-> Percentile(sorted, P99)]

(* The average and extremes of the live branch (lines 1392-1406): the sum  *)
(* runs over the sorted copy, the extremes are its ends.                   *)
SnapshotLatency(l) ==
    IF Len(l) = 0
    THEN [avg |-> FZero, min |-> FZero, max |-> FZero]
    ELSE LET sorted == SortFloat64s(l)
         IN  [avg |-> FDivInt(LatencyFold(sorted, Len(sorted)).sum, Len(sorted)),
              min |-> sorted[1], max |-> sorted[Len(sorted)]]

(* HandleGetMetrics, the percentile keys: computed from the reservoir for  *)
(* a registered run, 0.0 for a completed one (lines 1373-1375).            *)
MetricsPercentiles(u) ==
    IF u \in activeTests
    THEN SnapshotPercentiles(metrics[u].latencies)
    ELSE SnapshotPercentiles(<<>>)

(* HandleGetMetrics, avg_latency, min_latency and max_latency: from the    *)
(* reservoir for a registered run, from the row for a completed one.       *)
MetricsLatency(u) ==
    IF u \in activeTests
    THEN SnapshotLatency(metrics[u].latencies)
    ELSE IF u \in DOMAIN db
         THEN [avg |-> GetTestRunByUUID(u).avg, min |-> GetTestRunByUUID(u).min,
               max |-> GetTestRunByUUID(u).max]
         ELSE SnapshotLatency(<<>>)

GetMetrics(u) ==
    /\ MetricsResponse(u).code \in {200, 404}
    /\ UNCHANGED vars

(* HandleGetMetrics for run F, statement by statement. The lookup (lines   *)
(* 1348-1350) either finds the context and goes on to the counters, or     *)
(* answers from the persisted row (lines 1352-1383); polls bounds the      *)
(* requests made.                                                          *)
MetricsLookup(polls) ==
    /\ snap.pc = "idle"
    /\ snap.answered < polls
    /\ snap' = IF F \in activeTests
               THEN [snap EXCEPT !.pc = "total"]
               ELSE IF F \in DOMAIN db
                    THEN [snap EXCEPT !.total = GetTestRunByUUID(F).total,
                                      !.success = GetTestRunByUUID(F).success,
                                      !.error = GetTestRunByUUID(F).error,
                                      !.answered = @ + 1]
                    ELSE snap
    /\ UNCHANGED <<gAdm, gReg, gDesc, gCtx, gRun, stopLog, proc, gSink>>

(* atomic.LoadInt64(&metrics.TotalRequests) (line 1425).                   *)
MetricsLoadTotal ==
    /\ snap.pc = "total"
    /\ snap' = [snap EXCEPT !.pc = "success", !.total = metrics[F].total]
    /\ UNCHANGED <<gAdm, gReg, gDesc, gCtx, gRun, stopLog, proc, gSink>>

(* atomic.LoadInt64(&metrics.SuccessCount) (line 1426).                    *)
MetricsLoadSuccess ==
    /\ snap.pc = "success"
    /\ snap' = [snap EXCEPT !.pc = "error", !.success = metrics[F].success]
    /\ UNCHANGED <<gAdm, gReg, gDesc, gCtx, gRun, stopLog, proc, gSink>>

(* atomic.LoadInt64(&metrics.ErrorCount) (line 1427), then the response of *)
(* lines 1446-1463 is written from the three locals.                       *)
MetricsLoadError ==
    /\ snap.pc = "error"
    /\ snap' = [snap EXCEPT !.pc = "idle", !.error = metrics[F].error,
                            !.answered = @ + 1]
    /\ UNCHANGED <<gAdm, gReg, gDesc, gCtx, gRun, stopLog, proc, gSink>>

(* StartedAt of the run that is followed (line 780): the detailed          *)
(* specifications begin at time 0.                                         *)
StartTime == 0

(* int(x) of a whole number of milliseconds taken as seconds: the          *)
(* conversion truncates toward zero.                                       *)
TruncSeconds(ms) == IF ms >= 0 THEN ms \div MsPerSec ELSE 0 - ((0 - ms) \div MsPerSec)

(* A variant that does not raise negative offsets to 0 (not the code's).   *)
SecondOffsetUnclamped(m, startTime) == TruncSeconds(m.ts - startTime)

(* secondOffset (lines 1601-1604).                                         *)
SecondOffset(m, startTime) ==
    IF TruncSeconds(m.ts - startTime) < 0 THEN 0 ELSE TruncSeconds(m.ts - startTime)

(* The loop over the seconds from..maxOffset (lines 1624-1654): a point    *)
(* for every second that has a bucket, with the bucket's counts.           *)
RECURSIVE BucketPoints(_, _, _, _)
BucketPoints(rows, startTime, from, maxOffset) ==
    IF from > maxOffset THEN <<>>
    ELSE LET bucket == SelectSeq(rows, LAMBDA m : SecondOffset(m, startTime) = from)
             point == [second |-> from, requests |-> Len(bucket),
                       success |-> Len(SelectSeq(bucket, LAMBDA m : m.success))]
         IN  (IF Len(bucket) = 0 THEN <<>> ELSE <<point>>)
                 \o BucketPoints(rows, startTime, from + 1, maxOffset)

(* buildTimeSeriesPoints (lines 1587-1657); a point is followed by its     *)
(* offset in seconds and the two counts of its bucket.                     *)
buildTimeSeriesPoints(rows, startTime) ==
    IF Len(rows) = 0 THEN <<>>
    ELSE LET offsets == {SecondOffset(rows[k], startTime) : k \in DOMAIN rows}
             maxOffset == CHOOSE x \in offsets \cup {0} :
                              \A y \in offsets \cup {0} : x >= y
         IN  BucketPoints(rows, startTime, 0, maxOffset)

(* HandleGetHistoricalMetrics (lines 1496-1570): the time series of a run  *)
(* that has a row, rebuilt from its samples.                               *)
HistoricalResponse(u) ==
    IF u \notin DOMAIN db THEN [code |-> 404, timeSeries |-> <<>>]
    ELSE [code |-> 200,
          timeSeries |-> buildTimeSeriesPoints(GetRequestMetrics(u), StartTime)]

GetHistoricalMetrics(u) ==
    /\ HistoricalResponse(u).code \in {200, 404}
    /\ UNCHANGED vars

(* TestManager.Shutdown (lines 598-611): cancel every registered run.      *)
CancelAll ==
    [u \in DOMAIN tctx |->
        IF u \in activeTests THEN [tctx[u] EXCEPT !.done = TRUE] ELSE tctx[u]]

Shutdown ==
    /\ \E u \in activeTests : ~tctx[u].done
    /\ tctx' = CancelAll
    /\ UNCHANGED <<gAdm, gReg, gDesc, metrics, sup, gRun, gHttp, gSink>>

(* main after the shutdown signal (part_001 lines 143-160): tm.Shutdown,   *)
(* then server.Shutdown, which waits for the open connections only, then   *)
(* main returns and the process ends with its goroutines.                  *)
MainShutdown ==
    /\ proc = "serving"
    /\ tctx' = CancelAll
    /\ proc' = "shutdown"
    /\ UNCHANGED <<gAdm, gReg, gDesc, metrics, sup, gRun, stopLog, snap, gSink>>

MainExit ==
    /\ proc = "shutdown"
    /\ proc' = "exited"
    /\ UNCHANGED <<gAdm, gReg, gDesc, gCtx, gRun, stopLog, snap, gSink>>

----------------------------------------------------------------------------
(* The start requests that were admitted: the numeric fields of the run.   *)
RunParams ==
    { [users |-> n, ramp |-> r, duration |-> MinDuration, threshold |-> t] :
          n \in MinUsers..MaxN, r \in MinRampUpSec..MaxRampUp, t \in {0, 50} }

(* Caller 1's run F at the return of HandleStartTest (fresh), or observed  *)
(* later with its users launched and WarmRequests requests recorded, or    *)
(* WarmExtra failed requests more.                                         *)
Init ==
    \E p \in {x \in RunParams : ValidLimits(x)}, warm \in BOOLEAN, extra \in 0..WarmExtra :
      /\ warm => p.ramp = MinRampUpSec
      /\ extra > 0 => (warm /\ p.threshold > 0)
      /\ now = 0
      /\ lastTestStarts = [ip \in {1} |-> 0]
      /\ activeTests = {F}
      /\ testsPerIP = [ip \in {1} |-> {F}]
      /\ db = [u \in {F} |-> RunningRow]
      /\ testRun = [u \in {F} |-> NewTestRun(p)]
      /\ tctx = [u \in {F} |-> NewContext]
      /\ metrics = [u \in {F} |->
                      IF warm
                      THEN [NewMetrics EXCEPT
                              !.total = WarmRequests + extra,
                              !.success = WarmRequests - WarmErrors,
                              !.error = WarmErrors + extra,
                              !.latencies = [k \in 1..(WarmRequests + extra) |-> Ms1]]
                      ELSE NewMetrics]
      /\ sup = [u \in {F} |-> [pc |-> IF warm THEN "wait" ELSE "start", ip |-> 1]]
      /\ calcCount = [u \in {F} |-> 0]
      /\ updateFailed = [u \in {F} |-> FALSE]
      /\ req = [q \in Reqs |-> IdleReq]
      /\ okStarts = [ip \in Callers |-> IF ip = 1 THEN {0} ELSE {}]
      /\ stopChan = FALSE
      /\ ramp = IF warm THEN [NoRamp EXCEPT !.pc = "done", !.started = p.users]
                ELSE NoRamp
      /\ user = [i \in 1..p.users |-> IF warm THEN "select" ELSE "none"]
      /\ targetURL = [i \in 1..p.users |->
                         IF warm THEN normalizeHost(ExampleCom) ELSE <<>>]
      /\ flight = NoFlight
      /\ wg = IF warm THEN p.users ELSE 0
      /\ sampler = [pc |-> "loop", points |-> 0]
      /\ cb = IF warm
              THEN [NoBreaker EXCEPT !.pc = IF p.threshold <= 0 THEN "exit" ELSE "loop"]
              ELSE NoBreaker
      /\ issued = 0
      /\ endedBy = "none"
      /\ stopLog = NoStops
      /\ snap = NoSnap
      /\ proc = "serving"
      /\ requestMetrics =
             IF warm
             THEN [k \in 1..(WarmRequests + extra) |->
                     IF k <= WarmRequests - WarmErrors
                     THEN [run |-> F, ts |-> 0, success |-> TRUE, status |-> 200,
                           seen |-> Answer(200)]
                     ELSE [run |-> F, ts |-> 0, success |-> FALSE, status |-> 0,
                           seen |-> TransportFailure]]
             ELSE <<>>
      /\ saveErrors = 0

Next ==
    \/ SupStart
    \/ RampTick
    \/ RampReturn
    \/ RampLaunch
    \/ \E i \in DOMAIN user : UserTick(i)
    \/ \E i \in DOMAIN user : UserComplete(i)
    \/ \E i \in DOMAIN user : UserReturn(i)
    \/ SamplerTick
    \/ SamplerExit
    \/ CbStart
    \/ CbExit
    \/ CbReadTotal
    \/ CbDecide
    \/ SupCancelled
    \/ SupDeadline
    \/ SupDrained
    \/ SupFinalize(F)
    \/ SupUnregister(F)
    \/ SupUntrack(F)
    \/ StopLookup
    \/ StopCalc
    \/ \E u \in {F, Unknown} : GetStatus(u)
    \/ \E u \in {F, Unknown} : GetMetrics(u)
    \/ Shutdown

Spec == Init /\ [][Next]_vars

----------------------------------------------------------------------------
(* The collector and the sample table of one run in detail.                *)

(* Bounds of the window.                                                   *)
AggUsers == 2
AggRequests == 3

(* What a request can return: two latencies, sample writes that fail.      *)
AggLatencies == {Ms07, Ms25}
AggSaves == BOOLEAN

AggParams ==
    [users |-> AggUsers, ramp |-> MinRampUpSec, duration |-> MinDuration, threshold |-> 0]

(* Run F with its users launched, no request made yet, the circuit breaker *)
(* disabled.                                                               *)
InitAgg ==
    /\ now = 0
    /\ lastTestStarts = [ip \in {1} |-> 0]
    /\ activeTests = {F}
    /\ testsPerIP = [ip \in {1} |-> {F}]
    /\ db = [u \in {F} |-> RunningRow]
    /\ testRun = [u \in {F} |-> NewTestRun(AggParams)]
    /\ tctx = [u \in {F} |-> NewContext]
    /\ metrics = [u \in {F} |-> NewMetrics]
    /\ sup = [u \in {F} |-> [pc |-> "wait", ip |-> 1]]
    /\ calcCount = [u \in {F} |-> 0]
    /\ updateFailed = [u \in {F} |-> FALSE]
    /\ req = [q \in Reqs |-> IdleReq]
    /\ okStarts = [ip \in Callers |-> IF ip = 1 THEN {0} ELSE {}]
    /\ stopChan = FALSE
    /\ ramp = [NoRamp EXCEPT !.pc = "done", !.started = AggUsers]
    /\ user = [i \in 1..AggUsers |-> "select"]
    /\ targetURL = [i \in 1..AggUsers |-> normalizeHost(ExampleCom)]
    /\ flight = NoFlight
    /\ wg = AggUsers
    /\ sampler = [pc |-> "loop", points |-> 0]
    /\ cb = [NoBreaker EXCEPT !.pc = "exit"]
    /\ issued = 0
    /\ endedBy = "none"
    /\ stopLog = NoStops
    /\ snap = NoSnap
    /\ proc = "serving"
    /\ requestMetrics = <<>>
    /\ saveErrors = 0

AggTick(i) == TickBody(i, AggRequests)

AggComplete(i) == CompleteBody(i, AggLatencies, AggSaves, RunOutcomes, {now * MsPerSec})

NextAgg ==
    \/ \E i \in DOMAIN user : AggTick(i)
    \/ \E i \in DOMAIN user : AggComplete(i)
    \/ \E i \in DOMAIN user : UserReturn(i)
    \/ SupDeadline
    \/ SupDrained
    \/ SupFinalize(F)
    \/ SupUnregister(F)
    \/ SupUntrack(F)
    \/ GetMetrics(F)

SpecAgg == InitAgg /\ [][NextAgg]_vars

----------------------------------------------------------------------------
(* The reservoir and the ring at their capacities.                         *)

(* Bounds of the window.                                                   *)
ResUsers == 2
ResRequests == 3
ResPoints == 2

(* The k-th request recorded has latency k ms.                             *)
NthLatency == [k \in 1..(MaxLatencySamples + ResRequests + 1) |-> FloatOfInt(k)]

ResParams ==
    [users |-> ResUsers, ramp |-> MinRampUpSec, duration |-> MaxDuration, threshold |-> 0]

(* Run F observed with its users launched, the latencies lats recorded     *)
(* (all successes, all saved) and p points sampled; the requests of the    *)
(* users in traced are followed.                                           *)
ObservedTraced(params, lats, p, traced) ==
      /\ now = 0
      /\ lastTestStarts = [ip \in {1} |-> 0]
      /\ activeTests = {F}
      /\ testsPerIP = [ip \in {1} |-> {F}]
      /\ db = [u \in {F} |-> RunningRow]
      /\ testRun = [u \in {F} |-> NewTestRun(params)]
      /\ tctx = [u \in {F} |-> NewContext]
      /\ metrics = [u \in {F} |->
                      [total |-> Len(lats), success |-> Len(lats), error |-> 0,
                       latencies |-> lats,
                       timeSeries |-> [k \in 1..p |-> TimeSeriesPoint(NewMetrics)]]]
      /\ sup = [u \in {F} |-> [pc |-> "wait", ip |-> 1]]
      /\ calcCount = [u \in {F} |-> 0]
      /\ updateFailed = [u \in {F} |-> FALSE]
      /\ req = [q \in Reqs |-> IdleReq]
      /\ okStarts = [ip \in Callers |-> IF ip = 1 THEN {0} ELSE {}]
      /\ stopChan = FALSE
      /\ ramp = [NoRamp EXCEPT !.pc = "done", !.started = params.users]
      /\ user = [i \in 1..params.users |-> "select"]
      /\ targetURL = [i \in 1..params.users |-> normalizeHost(ExampleCom)]
      /\ flight = Traced(traced)
      /\ wg = params.users
      /\ sampler = [pc |-> "loop", points |-> 0]
      /\ cb = [NoBreaker EXCEPT !.pc = IF errorThreshold(params.threshold) <= 0
                                           THEN "exit" ELSE "loop"]
      /\ issued = 0
      /\ endedBy = "none"
      /\ stopLog = NoStops
      /\ snap = NoSnap
      /\ proc = "serving"
      /\ requestMetrics = [k \in 1..Len(lats) |->
                              [run |-> F, ts |-> 0, success |-> TRUE, status |-> 200,
                               seen |-> Answer(200)]]
      /\ saveErrors = 0

Observed(params, lats, p) == ObservedTraced(params, lats, p, {})

(* Either nothing recorded yet, or the reservoir one short of              *)
(* MaxLatencySamples; the ring empty or one short of MaxTimeSeries.        *)
InitRes ==
    \E n \in {0, MaxLatencySamples - 1}, p \in {0, MaxTimeSeries - 1} :
      Observed(ResParams, SubSeq(NthLatency, 1, n), p)

ResTick(i) == TickBody(i, ResRequests)

ResComplete(i) == CompleteBody(i, {NthLatency[metrics[F].total + 1]}, {TRUE}, RunOutcomes, {now * MsPerSec})

ResSample == SampleBody(ResPoints)

NextRes ==
    \/ \E i \in DOMAIN user : ResTick(i)
    \/ \E i \in DOMAIN user : ResComplete(i)
    \/ ResSample

SpecRes == InitRes /\ [][NextRes]_vars

----------------------------------------------------------------------------
(* Snapshots of reservoirs of several lengths.                             *)

(* Bounds of the window.                                                   *)
PctUsers == 2
PctRequests == 3
PctShort == 20
PctLong == 100

PctLatencies == {Ms07, Ms25}

PctParams ==
    [users |-> PctUsers, ramp |-> MinRampUpSec, duration |-> MaxDuration, threshold |-> 0]

(* The reservoir starts with n latencies in descending order: n ms first,  *)
(* 1 ms last.                                                              *)
InitPct ==
    \E n \in {0, PctShort, PctLong} :
      Observed(PctParams, [k \in 1..n |-> NthLatency[n - k + 1]], 0)

PctTick(i) == TickBody(i, PctRequests)

PctComplete(i) == CompleteBody(i, PctLatencies, {TRUE}, RunOutcomes, {now * MsPerSec})

NextPct ==
    \/ \E i \in DOMAIN user : PctTick(i)
    \/ \E i \in DOMAIN user : PctComplete(i)
    \/ GetMetrics(F)

SpecPct == InitPct /\ [][NextPct]_vars

----------------------------------------------------------------------------
(* Runs whose targets have many shapes, from admission to their requests.  *)

(* Bounds of the window.                                                   *)
NormUsers == 2
NormRequests == 2

UpperHttps ==
    <<"H", "T", "T", "P", "S", ":", "/", "/", "e", "x", "a", "m", "p", "l",
    "e", ".", "c", "o", "m">>
MixedHttpPort ==
    <<"H", "t", "t", "p", ":", "/", "/", "e", "x", "a", "m", "p", "l", "e",
    ".", "c", "o", "m", ":", "8", "0", "8", "0">>
HostPort ==
    <<"e", "x", "a", "m", "p", "l", "e", ".", "c", "o", "m", ":", "8", "0",
    "8", "0">>

(* Targets with a scheme in lower, upper and mixed case, with a port and   *)
(* no scheme, padded with spaces, and bare.                                *)
SchemeTargets ==
    { <<"h", "t", "t", "p", ":", "/", "/", "e", "x", "a", "m", "p", "l", "e",
      ".", "c", "o", "m">>,
      UpperHttps,
      MixedHttpPort,
      HostPort,
      <<" ", " ", "e", "x", "a", "m", "p", "l", "e", ".", "c", "o", "m", " ">>,
      <<"[", "2", "0", "0", "1", ":", "d", "b", "8", ":", ":", "1", "]">> }

(* The targets HandleStartTest admits.                                     *)
NormTargets == {h \in HostTargets \cup SchemeTargets : HostAccepted(h)}

NormParams ==
    [users |-> NormUsers, ramp |-> MinRampUpSec, duration |-> MinDuration, threshold |-> 0]

(* Run F at the return of HandleStartTest, with target host.               *)
Admitted(params, host) ==
      /\ now = 0
      /\ lastTestStarts = [ip \in {1} |-> 0]
      /\ activeTests = {F}
      /\ testsPerIP = [ip \in {1} |-> {F}]
      /\ db = [u \in {F} |-> RunningRow]
      /\ testRun = [u \in {F} |-> [NewTestRun(params) EXCEPT !.host = host]]
      /\ tctx = [u \in {F} |-> NewContext]
      /\ metrics = [u \in {F} |-> NewMetrics]
      /\ sup = [u \in {F} |-> [pc |-> "start", ip |-> 1]]
      /\ calcCount = [u \in {F} |-> 0]
      /\ updateFailed = [u \in {F} |-> FALSE]
      /\ req = [q \in Reqs |-> IdleReq]
      /\ okStarts = [ip \in Callers |-> IF ip = 1 THEN {0} ELSE {}]
      /\ stopChan = FALSE
      /\ ramp = NoRamp
      /\ user = [i \in 1..params.users |-> "none"]
      /\ targetURL = [i \in 1..params.users |-> <<>>]
      /\ flight = NoFlight
      /\ wg = 0
      /\ sampler = [pc |-> "loop", points |-> 0]
      /\ cb = NoBreaker
      /\ issued = 0
      /\ endedBy = "none"
      /\ stopLog = NoStops
      /\ snap = NoSnap
      /\ proc = "serving"
      /\ requestMetrics = <<>>
      /\ saveErrors = 0

InitNorm == \E h \in NormTargets : Admitted(NormParams, h)

NormTick(i) == TickBody(i, NormRequests)

NormComplete(i) == CompleteBody(i, {Ms1}, {TRUE}, RunOutcomes, {now * MsPerSec})

NextNorm ==
    \/ SupStart
    \/ RampTick
    \/ RampLaunch
    \/ \E i \in DOMAIN user : NormTick(i)
    \/ \E i \in DOMAIN user : NormComplete(i)

SpecNorm == InitNorm /\ [][NextNorm]_vars

----------------------------------------------------------------------------
(* The process from the shutdown signal to its exit, with one run active.  *)

(* Bounds of the window.                                                   *)
ShutUsers == 2
ShutRequests == 2

ShutParams ==
    [users |-> ShutUsers, ramp |-> MinRampUpSec, duration |-> MaxDuration, threshold |-> 0]

InitShut == Observed(ShutParams, <<>>, 0)

(* The goroutines of the process take steps until the process has exited.  *)
Alive == proc # "exited"

ShutTick(i) == Alive /\ TickBody(i, ShutRequests)
ShutComplete(i) == Alive /\ CompleteBody(i, {Ms1}, {TRUE}, RunOutcomes, {now * MsPerSec})
ShutReturn(i) == Alive /\ UserReturn(i)
ShutSamplerExit == Alive /\ SamplerExit
ShutCancelled == Alive /\ SupCancelled
ShutDeadline == Alive /\ SupDeadline
ShutDrained == Alive /\ SupDrained
ShutFinalize == Alive /\ SupFinalize(F)
ShutUnregister == Alive /\ SupUnregister(F)
ShutUntrack == Alive /\ SupUntrack(F)

NextShut ==
    \/ \E i \in DOMAIN user : ShutTick(i)
    \/ \E i \in DOMAIN user : ShutComplete(i)
    \/ \E i \in DOMAIN user : ShutReturn(i)
    \/ ShutSamplerExit
    \/ ShutCancelled
    \/ ShutDeadline
    \/ ShutDrained
    \/ ShutFinalize
    \/ ShutUnregister
    \/ ShutUntrack
    \/ MainShutdown
    \/ MainExit

SpecShut == InitShut /\ [][NextShut]_vars

----------------------------------------------------------------------------
(* One run with the clock: samples, deadline, drain and reconstruction.    *)

(* Bounds of the window.                                                   *)
TsUsers == 2
TsRequests == 3
TsMaxTime == 3

(* Completion times within the current second, and a wall clock that was   *)
(* set back by up to one second since the run started.                     *)
TsFractions == {0, 500}
TsSkews == {0, 1000}

TsParams ==
    [users |-> TsUsers, ramp |-> MinRampUpSec, duration |-> MinDuration, threshold |-> 0]

InitTs == Observed(TsParams, <<>>, 0)

(* A second passes; the supervisor takes the deadline as soon as it is     *)
(* reached.                                                                *)
TsClock ==
    /\ now < TsMaxTime
    /\ ~(sup[F].pc = "wait" /\ now >= testRun[F].duration)
    /\ now' = now + 1
    /\ UNCHANGED <<lastTestStarts, req, okStarts, gReg, gDesc, gCtx, gRun, gHttp, gSink>>

TsTick(i) == TickBody(i, TsRequests)

TsComplete(i) ==
    CompleteBody(i, {Ms1}, {TRUE}, RunOutcomes,
                 {now * MsPerSec + f - k : f \in TsFractions, k \in TsSkews})

(* time.After(duration) fires (line 997).                                  *)
TsDeadline == now = testRun[F].duration /\ SupDeadline

NextTs ==
    \/ TsClock
    \/ \E i \in DOMAIN user : TsTick(i)
    \/ \E i \in DOMAIN user : TsComplete(i)
    \/ \E i \in DOMAIN user : UserReturn(i)
    \/ TsDeadline
    \/ SupDrained
    \/ SupFinalize(F)
    \/ SupUnregister(F)
    \/ SupUntrack(F)
    \/ \E u \in {F, Unknown} : GetHistoricalMetrics(u)

SpecTs == InitTs /\ [][NextTs]_vars

----------------------------------------------------------------------------
(* One run whose requests end in every way a request can end.              *)

(* Bounds of the window.                                                   *)
OutUsers == 2
OutRequests == 3

(* Answers below, at and above the limit of line 1065, and the two kinds   *)
(* of error.                                                               *)
OutOutcomes ==
    {Answer(200), Answer(399), Answer(400), Answer(500), TransportFailure, RedirectFailure}

OutParams ==
    [users |-> OutUsers, ramp |-> MinRampUpSec, duration |-> MinDuration, threshold |-> 0]

InitOut == Observed(OutParams, <<>>, 0)

OutTick(i) == TickBody(i, OutRequests)

OutComplete(i) == CompleteBody(i, {Ms1}, {TRUE}, OutOutcomes, {now * MsPerSec})

NextOut ==
    \/ \E i \in DOMAIN user : OutTick(i)
    \/ \E i \in DOMAIN user : OutComplete(i)
    \/ \E i \in DOMAIN user : UserReturn(i)
    \/ SupCancelled
    \/ SupDeadline
    \/ Shutdown

SpecOut == InitOut /\ [][NextOut]_vars

----------------------------------------------------------------------------
(* calculateAndSaveMetrics statement by statement, as its two callers      *)
(* interleave: the stop handler, which runs it while the run goes on, and  *)
(* the supervisor's deferred function. The counters are read under the     *)
(* collector's lock (1252-1259); the descriptor is one struct shared by    *)
(* both callers and the status handler, written field by field and saved   *)
(* with no lock (1281-1293).                                               *)

(* Bounds of the window.                                                   *)
FinUsers == 1
FinRequests == 2

FinParams ==
    [users |-> FinUsers, ramp |-> MinRampUpSec, duration |-> MinDuration, threshold |-> 0]

InitFin == Observed(FinParams, <<>>, 0)

FinTick(i) == TickBody(i, FinRequests)

FinComplete(i) == CompleteBody(i, {Ms1}, {TRUE}, RunOutcomes, {now * MsPerSec})

(* Lines 1252-1278: the counters and the latency figures, into locals.     *)
ReadCounters(u) ==
    [total |-> metrics[u].total, success |-> metrics[u].success,
     error |-> metrics[u].error, lat |-> CalcLatency(metrics[u].latencies)]

(* Line 1281.                                                              *)
SetStatus(u) == [testRun EXCEPT ![u].status = "completed"]

(* Line 1282.                                                              *)
SetCompletedAt(u) == [testRun EXCEPT ![u].completedAt = TRUE]

(* Lines 1283-1289, from the locals.                                       *)
SetTotals(u, r) ==
    [testRun EXCEPT ![u].total = r.total, ![u].success = r.success,
                    ![u].error = r.error,
                    ![u].avg = r.lat.avg, ![u].min = r.lat.min, ![u].max = r.lat.max]

(* Lines 1291-1293: UpdateTestRun writes the shared struct as it is at the *)
(* call; a failure is logged.                                              *)
SaveDescriptor(u) ==
    /\ \E stored \in BOOLEAN :
          /\ db' = IF stored THEN [db EXCEPT ![u] = UpdatedRow(testRun[u])] ELSE db
          /\ updateFailed' = [updateFailed EXCEPT ![u] = ~stored]
    /\ calcCount' = [calcCount EXCEPT ![u] = @ + 1]
    /\ UNCHANGED testRun

(* The stop handler (line 1339), after its lookup.                         *)
FinStopRead ==
    /\ stopLog.pc = "calc"
    /\ stopLog' = [stopLog EXCEPT !.pc = "status", !.read = ReadCounters(F)]
    /\ UNCHANGED <<gAdm, gReg, gDesc, gCtx, gRun, snap, proc, gSink>>

FinStopStatus ==
    /\ stopLog.pc = "status"
    /\ testRun' = SetStatus(F)
    /\ stopLog' = [stopLog EXCEPT !.pc = "completedAt"]
    /\ UNCHANGED <<gAdm, gReg, db, calcCount, updateFailed, gCtx, gRun, snap, proc, gSink>>

FinStopCompletedAt ==
    /\ stopLog.pc = "completedAt"
    /\ testRun' = SetCompletedAt(F)
    /\ stopLog' = [stopLog EXCEPT !.pc = "totals"]
    /\ UNCHANGED <<gAdm, gReg, db, calcCount, updateFailed, gCtx, gRun, snap, proc, gSink>>

FinStopTotals ==
    /\ stopLog.pc = "totals"
    /\ testRun' = SetTotals(F, stopLog.read)
    /\ stopLog' = [stopLog EXCEPT !.pc = "save"]
    /\ UNCHANGED <<gAdm, gReg, db, calcCount, updateFailed, gCtx, gRun, snap, proc, gSink>>

FinStopSave ==
    /\ stopLog.pc = "save"
    /\ SaveDescriptor(F)
    /\ stopLog' = [stopLog EXCEPT !.pc = "idle", !.ok = @ + 1, !.resp = 200,
                                  !.read = NoRead]
    /\ UNCHANGED <<gAdm, gReg, gCtx, gRun, snap, proc, gSink>>

(* The supervisor's deferred call (line 854). Every user has returned      *)
(* (wg.Wait, line 995 or 1000), so the collector no longer changes and the *)
(* supervisor's locals are the collector's values throughout.              *)
FinSupStatus ==
    /\ sup[F].pc = "final"
    /\ testRun' = SetStatus(F)
    /\ sup' = [sup EXCEPT ![F].pc = "completedAt"]
    /\ UNCHANGED <<gAdm, gReg, db, calcCount, updateFailed, tctx, metrics, gRun, gHttp,
                   gSink>>

FinSupCompletedAt ==
    /\ sup[F].pc = "completedAt"
    /\ testRun' = SetCompletedAt(F)
    /\ sup' = [sup EXCEPT ![F].pc = "totals"]
    /\ UNCHANGED <<gAdm, gReg, db, calcCount, updateFailed, tctx, metrics, gRun, gHttp,
                   gSink>>

FinSupTotals ==
    /\ sup[F].pc = "totals"
    /\ testRun' = SetTotals(F, ReadCounters(F))
    /\ sup' = [sup EXCEPT ![F].pc = "save"]
    /\ UNCHANGED <<gAdm, gReg, db, calcCount, updateFailed, tctx, metrics, gRun, gHttp,
                   gSink>>

(* ... and IsRunning.Store(false) (line 855).                              *)
FinSupSave ==
    /\ sup[F].pc = "save"
    /\ SaveDescriptor(F)
    /\ tctx' = [tctx EXCEPT ![F].isRunning = FALSE]
    /\ sup' = [sup EXCEPT ![F].pc = "unregister"]
    /\ UNCHANGED <<gAdm, gReg, metrics, gRun, gHttp, gSink>>

NextFin ==
    \/ \E i \in DOMAIN user : FinTick(i)
    \/ \E i \in DOMAIN user : FinComplete(i)
    \/ \E i \in DOMAIN user : UserReturn(i)
    \/ SupDeadline
    \/ SupDrained
    \/ FinSupStatus
    \/ FinSupCompletedAt
    \/ FinSupTotals
    \/ FinSupSave
    \/ SupUnregister(F)
    \/ SupUntrack(F)
    \/ StopLookup
    \/ FinStopRead
    \/ FinStopStatus
    \/ FinStopCompletedAt
    \/ FinStopTotals
    \/ FinStopSave
    \/ GetStatus(F)

SpecFin == InitFin /\ [][NextFin]_vars

----------------------------------------------------------------------------
(* Start requests over connections: peers with an address and a source     *)
(* port, with and without an X-Forwarded-For header, on an idle manager.   *)

PeerA1 == <<"1", "0", ".", "0", ".", "0", ".", "1", ":", "8", "1">>
PeerA2 == <<"1", "0", ".", "0", ".", "0", ".", "1", ":", "8", "2">>
PeerB1 == <<"1", "0", ".", "0", ".", "0", ".", "2", ":", "8", "1">>
ForwardedOne == <<"1", "0", ".", "0", ".", "0", ".", "9">>
ForwardedTwo == <<"1", "0", ".", "0", ".", "0", ".", "9", ",", " ", "1", "0", ".", "0", ".", "0", ".", "1">>
ForwardedPadded == <<" ", "1", "0", ".", "0", ".", "0", ".", "9", " ">>

PeerConns ==
    {[remoteAddr |-> a, forwarded |-> f] :
        a \in {PeerA1, PeerA2, PeerB1},
        f \in {<<>>, ForwardedOne, ForwardedTwo, ForwardedPadded}}

PeerKeys == {clientIP(c.remoteAddr, c.forwarded) : c \in PeerConns}

(* net.SplitHostPort of an IPv4 peer address: the part before the colon.   *)
PeerAddress(remoteAddr) == Before(remoteAddr, <<":">>)

(* The manager after NewTestManager (lines 577-596): no run, empty tables. *)
InitPeer ==
    /\ now = 0
    /\ lastTestStarts = << >>
    /\ activeTests = {}
    /\ testsPerIP = << >>
    /\ db = << >>
    /\ testRun = << >>
    /\ tctx = << >>
    /\ metrics = << >>
    /\ sup = << >>
    /\ calcCount = << >>
    /\ updateFailed = << >>
    /\ req = [q \in Reqs |-> IdleReq]
    /\ okStarts = [ip \in PeerKeys |-> {}]
    /\ stopChan = FALSE
    /\ ramp = NoRamp
    /\ user = << >>
    /\ wg = 0
    /\ sampler = NoSampler
    /\ cb = NoBreaker
    /\ issued = 0
    /\ targetURL = << >>
    /\ flight = NoFlight
    /\ endedBy = "none"
    /\ stopLog = NoStops
    /\ snap = NoSnap
    /\ proc = "serving"
    /\ requestMetrics = <<>>
    /\ saveErrors = 0

PeerValidate(q) ==
    ValidateBody(q, PeerConns, {ExampleCom}, {CHOOSE p \in ParamSet : ValidLimits(p)},
                 {DefaultCall})

NextPeer ==
    \/ \E q \in Reqs : PeerValidate(q)
    \/ \E q \in Reqs : ReqCheckGlobal(q)
    \/ \E q \in Reqs : ReqCheckPerIP(q)
    \/ \E q \in Reqs : ReqRateLimit(q)
    \/ \E q \in Reqs : ReqSave(q)
    \/ \E q \in Reqs : ReqRegister(q)
    \/ \E q \in Reqs : ReqTrack(q)
    \/ Tick

SpecPeer == InitPeer /\ [][NextPeer]_vars

----------------------------------------------------------------------------
(* The ramp scheduler at every tick of its 100 ms ticker, for runs that    *)
(* are not cancelled.                                                      *)

(* The longest ramp and the largest run considered.                        *)
RampSeconds == 49
RampUsers == 10

(* Users and ramp-up seconds of the runs: ramps whose rate N / R is and is *)
(* not a float64, and no ramp.                                             *)
RampShapes == {<<2, RampSeconds>>, <<3, 2>>, <<RampUsers, 3>>, <<1, 0>>, <<3, 0>>}

RampParams ==
    {[users |-> x[1], ramp |-> x[2], duration |-> RampSeconds, threshold |-> 0] :
        x \in RampShapes}

InitRamp == \E p \in RampParams : Admitted(p, ExampleCom)

RampEveryTick == RampTickBody(1)

NextRamp ==
    \/ SupStart
    \/ RampEveryTick
    \/ RampLaunch

SpecRamp == InitRamp /\ [][NextRamp]_vars

----------------------------------------------------------------------------
(* Start requests with per-user rates and thresholds inside, at and        *)
(* outside their ranges, on an idle manager.                               *)

RateInputs == {0 - 1, 0, 1, 7, MaxRate, MaxRate + 1, 1001}
ThresholdInputs == {0 - 1, 0, 50, MaxThreshold, MaxThreshold + 1}

(* Requests without a rate, and requests with a rate and the highest       *)
(* threshold.                                                              *)
PaceParams ==
    {[users |-> MinUsers, ramp |-> MinRampUpSec, duration |-> MinDuration,
      threshold |-> t] : t \in ThresholdInputs}
    \cup {[users |-> MinUsers, ramp |-> MinRampUpSec, duration |-> MinDuration,
           threshold |-> MaxThreshold + 1, rate |-> m] : m \in RateInputs}

PaceValidate(q) == ValidateBody(q, CallerConns, {ExampleCom}, PaceParams, {DefaultCall})

NextPace ==
    \/ \E q \in Reqs : PaceValidate(q)
    \/ \E q \in Reqs : ReqCheckGlobal(q)
    \/ \E q \in Reqs : ReqCheckPerIP(q)
    \/ \E q \in Reqs : ReqRateLimit(q)
    \/ \E q \in Reqs : ReqSave(q)
    \/ \E q \in Reqs : ReqRegister(q)
    \/ \E q \in Reqs : ReqTrack(q)
    \/ Tick

SpecPace == InitHost /\ [][NextPace]_vars

----------------------------------------------------------------------------
(* One run whose users' requests are followed from issuance to the sink.   *)

(* Bounds of the window.                                                   *)
SerialUsers == 2
SerialRequests == 4

SerialParams ==
    [users |-> SerialUsers, ramp |-> MinRampUpSec, duration |-> MinDuration,
     threshold |-> 0]

InitSerial == ObservedTraced(SerialParams, <<>>, 0, 1..SerialUsers)

SerialTick(i) == TickBody(i, SerialRequests)

SerialComplete(i) == CompleteBody(i, {Ms1}, BOOLEAN, RunOutcomes, {now * MsPerSec})

NextSerial ==
    \/ \E i \in DOMAIN user : SerialTick(i)
    \/ \E i \in DOMAIN user : SerialComplete(i)
    \/ \E i \in DOMAIN user : UserReturn(i)
    \/ SupDeadline
    \/ Shutdown

SpecSerial == InitSerial /\ [][NextSerial]_vars

----------------------------------------------------------------------------
(* One run whose sample writes and descriptor update can fail.             *)

(* Bounds of the window.                                                   *)
SinkUsers == 2
SinkRequests == 3

SinkParams ==
    [users |-> SinkUsers, ramp |-> MinRampUpSec, duration |-> MinDuration, threshold |-> 0]

InitSink == Observed(SinkParams, <<>>, 0)

SinkTick(i) == TickBody(i, SinkRequests)

SinkComplete(i) == CompleteBody(i, {Ms1}, BOOLEAN, RunOutcomes, {now * MsPerSec})

NextSink ==
    \/ \E i \in DOMAIN user : SinkTick(i)
    \/ \E i \in DOMAIN user : SinkComplete(i)
    \/ \E i \in DOMAIN user : UserReturn(i)
    \/ SupDeadline
    \/ SupDrained
    \/ SupFinalize(F)
    \/ SupUnregister(F)
    \/ SupUntrack(F)

SpecSink == InitSink /\ [][NextSink]_vars

(* The scheduling of the run's goroutines: the supervisor's timer fires    *)
(* and its steps are taken, an in-flight request returns, and a user's     *)
(* select that has stopChan ready again and again takes it.                *)
SinkFairness ==
    /\ WF_vars(SupDeadline)
    /\ WF_vars(SupDrained)
    /\ WF_vars(SupFinalize(F))
    /\ WF_vars(SupUnregister(F))
    /\ WF_vars(SupUntrack(F))
    /\ \A i \in 1..SinkUsers : WF_vars(SinkComplete(i))
    /\ \A i \in 1..SinkUsers : SF_vars(UserReturn(i))

FairSink == SpecSink /\ SinkFairness

----------------------------------------------------------------------------
(* Snapshots and circuit-breaker polls while a user records: one user,     *)
(* SnapRequests requests of either outcome, SnapPolls metrics requests,    *)
(* the circuit breaker armed at the threshold MaxThreshold.                *)
SnapUsers == 1
SnapRequests == 2
SnapPolls == 2

SnapParams ==
    [users |-> SnapUsers, ramp |-> MinRampUpSec, duration |-> MinDuration,
     threshold |-> MaxThreshold]

InitSnap == Observed(SnapParams, <<>>, 0)

SnapTick(i) == TickBody(i, SnapRequests)

SnapComplete(i) == CompleteBody(i, {Ms1}, {TRUE}, RunOutcomes, {now * MsPerSec})

SnapLookup == MetricsLookup(SnapPolls)

NextSnap ==
    \/ \E i \in DOMAIN user : SnapTick(i)
    \/ \E i \in DOMAIN user : SnapComplete(i)
    \/ \E i \in DOMAIN user : UserReturn(i)
    \/ SnapLookup
    \/ MetricsLoadTotal
    \/ MetricsLoadSuccess
    \/ MetricsLoadError
    \/ CbReadTotal
    \/ CbDecide
    \/ SupDeadline
    \/ SupDrained
    \/ SupFinalize(F)
    \/ SupUnregister(F)

SpecSnap == InitSnap /\ [][NextSnap]_vars

----------------------------------------------------------------------------
(* Claims checked under SpecAdm.                                           *)

(* C1: under every interleaving of start requests and finalizations the    *)
(* registry never holds more than MaxConcurrentTests runs and the per-IP   *)
(* table never holds more than MaxTestsPerIP runs of one caller.           *)
C1_AdmissionCaps ==
    /\ Cardinality(activeTests) <= MaxConcurrentTests
    /\ \A ip \in DOMAIN testsPerIP : Cardinality(testsPerIP[ip]) <= MaxTestsPerIP

(* Limiter timestamps of the caller's starts that are between the limiter  *)
(* and SaveTestRun.                                                        *)
PendingStarts(ip) == {req[r].rl : r \in {x \in Reqs : req[x].pc = "save" /\ req[x].ip = ip}}

(* C8: a start less than RateLimitSeconds after the caller's previous      *)
(* successful start creates no run, and the limiter rejects a start only   *)
(* when a start of the caller that succeeded (or is still being saved)     *)
(* passed the limiter less than RateLimitSeconds earlier.                  *)
C8_RateLimit ==
    [][ /\ \A ip \in Callers : \A a, b \in okStarts'[ip] :
              a < b => b - a >= RateLimitSeconds
        /\ \A q \in Reqs :
              (req[q].pc = "rate" /\ req'[q].why = "rate") =>
                  \E t \in okStarts[req[q].ip] \cup PendingStarts(req[q].ip) :
                      now - t < RateLimitSeconds ]_vars

(* C9: only a successful start moves the caller's last-start entry: when   *)
(* no start of the caller is between the limiter and SaveTestRun, the      *)
(* entry is the limiter time of the caller's latest successful start, and  *)
(* absent if there is none.                                                *)
C9_OnlySuccessUpdates ==
    \A ip \in Callers :
        PendingStarts(ip) = {} =>
            IF okStarts[ip] = {}
            THEN ip \notin DOMAIN lastTestStarts
            ELSE /\ ip \in DOMAIN lastTestStarts
                 /\ lastTestStarts[ip] \in okStarts[ip]
                 /\ \A t \in okStarts[ip] : t <= lastTestStarts[ip]

(* The steps of the runLoadTest goroutine, deferred function included.      *)
SupStep ==
    \/ SupStart
    \/ SupCancelled
    \/ SupDeadline
    \/ SupDrained
    \/ SupFinalize(F)
    \/ SupUnregister(F)
    \/ SupUntrack(F)

(* The scheduling the Go runtime and the timers guarantee: a goroutine     *)
(* that can step does, time.After fires, an in-flight request returns (at  *)
(* the latest at the client's 30 s timeout), and a select that has         *)
(* ctx.Done or stopChan ready again and again takes it.                    *)
Fairness ==
    /\ WF_vars(SupStep)
    /\ \A i \in Users : WF_vars(i \in DOMAIN user /\ UserComplete(i))
    /\ \A i \in Users : SF_vars(i \in DOMAIN user /\ UserReturn(i))

FairSpec == Spec /\ Fairness

----------------------------------------------------------------------------
(* Claims checked under Spec and FairSpec.                                 *)

(* The deferred function of runLoadTest has run calculateAndSaveMetrics.   *)
Finalized == sup[F].pc \in {"unregister", "untrack", "done"}

(* The step is HandleStopTest answering 200.                               *)
StopAccepted == stopLog'.ok > stopLog.ok

(* C2: finalization is executed exactly once per admitted run: never more  *)
(* than once, and exactly once when the run is over and no stop request is *)
(* in progress.                                                            *)
C2_FinalizedOnce ==
    /\ calcCount[F] <= 1
    /\ (sup[F].pc = "done" /\ stopLog.pc = "idle") => calcCount[F] = 1

(* C3: the terminal status follows the way the run ended: a stop request   *)
(* accepted while the run is neither expired nor cancelled leaves status   *)
(* `stopped`; a run finalized with no stop accepted has status `completed`.*)
C3_TerminalStatus ==
    [][ /\ (StopAccepted /\ sup[F].pc \in {"start", "wait"} /\ ~tctx[F].done)
               => testRun'[F].status = "stopped"
        /\ (Finalized' /\ stopLog'.ok = 0) => testRun'[F].status = "completed" ]_vars

(* C4: an accepted stop cancels the run's scope, and after an accepted     *)
(* stop the ramp scheduler launches no further user.                       *)
C4_StopCancels ==
    [][ /\ StopAccepted => tctx'[F].done
        /\ stopLog.ok > 0 => ramp'.started = ramp.started ]_vars

(* C5: a stop request answered for a run that was already stopped or       *)
(* finalized is answered 404 and changes neither the descriptor in memory  *)
(* nor the persisted row.                                                  *)
C5_StopAfterFinalization ==
    [][ (calcCount[F] > 0 /\ stopLog' # stopLog /\ stopLog'.pc = "idle")
            => /\ stopLog'.resp = 404
               /\ testRun' = testRun
               /\ db' = db ]_vars

C7_ScopeCancelledAtEnd == Finalized => tctx[F].done

EndedByCircuit == Finalized /\ endedBy = "cancel" /\ cb.first

(* C11: a run whose termination was triggered by the circuit breaker has,  *)
(* once finalized, stopped_by_circuit = true, completed_at set, and a      *)
(* final error rate 100 * error / total from the finalized totals >= T.    *)
C11_CircuitFinalized ==
    EndedByCircuit =>
        /\ testRun[F].stoppedByCircuit
        /\ testRun[F].completedAt
        /\ 100 * testRun[F].error >= T * testRun[F].total

(* C12: the circuit-breaker flag survives finalization: for a run          *)
(* terminated by the circuit breaker, a status query and a metrics query   *)
(* issued after the run was finalized and removed from the registry still  *)
(* report stopped_by_circuit = true.                                       *)
C12_FlagSurvives ==
    (EndedByCircuit /\ F \notin activeTests) =>
        /\ StatusResponse(F).stoppedByCircuit
        /\ MetricsResponse(F).stoppedByCircuit

(* C13: a run that ended by expiry of its duration keeps                   *)
(* stopped_by_circuit = false: once the deadline has ended the run, no     *)
(* poll of the circuit breaker (during the drain or later) sets the flag,  *)
(* so the finalized descriptor of such a run has the flag false.           *)
C13_NoTripAfterDeadline ==
    [][ (endedBy = "deadline" /\ ~testRun[F].stoppedByCircuit)
            => ~testRun'[F].stoppedByCircuit ]_vars

(* The scheduler's next tick is due no earlier than time.After(duration):  *)
(* the ticker (line 904) and the timer (line 997) run on the same clock.   *)
NextTickAtDeadline ==
    ramp.elapsed + RampStep >= testRun[F].duration * RampTicksPerSec

(* C14: the number of virtual users started never decreases and never      *)
(* exceeds N, and unless the scope is cancelled first the scheduler does   *)
(* not finish before N users are started: a scheduler that returned when   *)
(* the tick at R seconds was due has started all N.                        *)
C14_RampReachesN ==
    [][ /\ ramp'.started >= ramp.started
        /\ ramp'.started <= N
        /\ (ramp'.pc = "done" /\ ~tctx'[F].done /\ NextTickAtDeadline')
               => ramp'.started = N ]_vars

----------------------------------------------------------------------------
(* Claims checked under SpecAgg.                                           *)

(* The rows of run F, and those flagged successful.                        *)
Samples == GetRequestMetrics(F)
OkSamples == SelectSeq(Samples, LAMBDA r : r.success)

----------------------------------------------------------------------------
(* Claims checked under SpecRes.                                           *)

(* C16: after any sequence of record operations and sampler ticks the      *)
(* reservoir holds at most MaxLatencySamples entries and the ring at most  *)
(* MaxTimeSeries points; the reservoir holds the most recently recorded    *)
(* latencies in insertion order, exactly MaxLatencySamples of them once    *)
(* that many have been recorded.                                           *)
C16_BoundedReservoir ==
    LET l == metrics[F].latencies
        n == metrics[F].total
    IN  /\ Len(l) <= MaxLatencySamples
        /\ Len(metrics[F].timeSeries) <= MaxTimeSeries
        /\ Len(l) = IF n > MaxLatencySamples THEN MaxLatencySamples ELSE n
        /\ l = SubSeq(NthLatency, n - Len(l) + 1, n)

(* More than MaxLatencySamples latencies were recorded and the ring was    *)
(* trimmed.                                                                *)
C16_Witness ==
    /\ metrics[F].total > MaxLatencySamples + 1
    /\ Len(metrics[F].latencies) = MaxLatencySamples
    /\ metrics[F].latencies[1] = NthLatency[metrics[F].total - MaxLatencySamples + 1]
    /\ Len(metrics[F].timeSeries) = MaxTimeSeries
    /\ sampler.points = ResPoints

----------------------------------------------------------------------------
(* Claims checked under SpecPct.                                           *)

(* floor(n * P / 100) for every reservoir length n.                        *)
FloorIndex(n, p) == (n * p) \div 100

IndexIsFloor ==
    \A n \in 1..MaxLatencySamples :
        /\ PercentileIndex(n, P50) = FloorIndex(n, 50)
        /\ PercentileIndex(n, P95) = FloorIndex(n, 95)
        /\ PercentileIndex(n, P99) = FloorIndex(n, 99)

(* s is l in ascending order.                                              *)
IsSortedCopy(s, l) ==
    /\ Len(s) = Len(l)
    /\ \A i \in 1..(Len(s) - 1) : FLeq(s[i], s[i + 1])
    /\ \A k \in 1..Len(s) :
          Cardinality({j \in 1..Len(s) : s[j] = s[k]}) =
          Cardinality({j \in 1..Len(l) : l[j] = s[k]})

(* C17: the snapshot percentile P of a registered run is the element at    *)
(* index floor(len * P / 100) of the ascending-sorted copy of the          *)
(* reservoir, 0 for an empty reservoir, and p50 <= p95 <= p99.             *)
C17_Percentiles ==
    LET l == metrics[F].latencies
        s == SortFloat64s(l)
        r == MetricsPercentiles(F)
    IN  /\ IndexIsFloor
        /\ IsSortedCopy(s, l)
        /\ Len(l) = 0 => (IsFZero(r.p50) /\ IsFZero(r.p95) /\ IsFZero(r.p99))
        /\ Len(l) > 0 =>
              /\ r.p50 = s[FloorIndex(Len(l), 50) + 1]
              /\ r.p95 = s[FloorIndex(Len(l), 95) + 1]
              /\ r.p99 = s[FloorIndex(Len(l), 99) + 1]
              /\ FLeq(r.p50, r.p95)
              /\ FLeq(r.p95, r.p99)

(* A reservoir out of order whose three percentiles are three different    *)
(* elements, none of them the maximum.                                     *)
C17_Witness ==
    LET l == metrics[F].latencies
        r == MetricsPercentiles(F)
    IN  /\ Len(l) = PctLong + PctRequests
        /\ l[Len(l)] = Ms07
        /\ FLess(r.p50, r.p95)
        /\ FLess(r.p95, r.p99)
        /\ FLess(r.p99, SortFloat64s(l)[Len(l)])

----------------------------------------------------------------------------
(* Claims checked under SpecAgg (latency aggregates).                      *)

(* C18: in every finalized descriptor and every live snapshot with         *)
(* total > 0, min_latency <= avg_latency <= max_latency.                   *)
C18_AvgBetweenMinMax ==
    /\ (Finalized /\ testRun[F].total > 0) =>
          /\ FLeq(testRun[F].min, testRun[F].avg)
          /\ FLeq(testRun[F].avg, testRun[F].max)
    /\ (F \in activeTests /\ MetricsResponse(F).total > 0) =>
          /\ FLeq(MetricsLatency(F).min, MetricsLatency(F).avg)
          /\ FLeq(MetricsLatency(F).avg, MetricsLatency(F).max)

----------------------------------------------------------------------------
(* Claims checked under SpecHost.                                          *)

(* The start requests that have been read and whose target HandleStartTest *)
(* rejects.                                                                *)
RejectedStarts == {q \in Reqs : req[q].pc # "idle" /\ ~HostAccepted(req[q].host)}

(* The validator returns an error for each listed target.                  *)
ListedRejected == \A h \in ListedTargets : validateHost(h) # "nil"

(* C19: the host validator rejects the six listed targets, and a start     *)
(* request whose target the validator rejects is answered 400 and creates  *)
(* no run: every row, descriptor and supervisor (the only sender of        *)
(* requests to a target) belongs to a request with an accepted target.     *)
C19_RejectedTargets ==
    /\ ListedRejected
    /\ \A q \in Reqs :
          (/\ req[q].pc # "idle"
           /\ (req[q].host \in ListedTargets \/ validateHost(req[q].host) # "nil")) =>
          /\ req[q].pc = "done"
          /\ req[q].resp = 400
    /\ Cardinality(DOMAIN db) + Cardinality(RejectedStarts)
          <= Cardinality({q \in Reqs : req[q].pc # "idle"})
    /\ DOMAIN sup \subseteq DOMAIN db
    /\ activeTests \subseteq DOMAIN db

(* A request for the metadata path was refused while another request       *)
(* started a run.                                                          *)
C19_Witness ==
    /\ \E q \in Reqs : req[q].host = ListedMetadata /\ req[q].resp = 400
    /\ \E q \in Reqs : req[q].host = ExampleCom /\ req[q].resp = 200
    /\ Cardinality(DOMAIN sup) = 1

(* C20: the host validator rejects every target whose hostname is an       *)
(* address in 169.254.0.0/16, not only the enumerated metadata addresses.  *)
C20_LinkLocalRejected ==
    \A q \in Reqs :
        (req[q].pc # "idle" /\ req[q].host \in LinkLocalTargets \cup {ListedMetadata}) =>
            /\ req[q].pc = "done"
            /\ req[q].resp = 400

----------------------------------------------------------------------------
(* Claims checked under SpecNorm.                                          *)

(* The input carried a scheme the validator accepts: it contains "://" and *)
(* url.Parse finds the scheme http or https, in any letter case.           *)
CarriesScheme(h) ==
    /\ Contains(h, <<":", "/", "/">>)
    /\ Parse(h).scheme \in {<<"h", "t", "t", "p">>, <<"h", "t", "t", "p", "s">>}

(* The input without a scheme names a port: URL.Port of the input parsed   *)
(* as the validator parses it is not empty.                                *)
HasPort(h) ==
    LET a == Parse(HttpPrefix \o h).host
    IN  Hostname(a) # a /\ ~HasPrefix(From(a, LastIndex(a, <<":">>)), <<"[">>)
        /\ Len(From(a, LastIndex(a, <<":">>))) > 1 /\ LastIndex(a, <<":">>) # 0
        /\ validOptionalPort(From(a, LastIndex(a, <<":">>)))

(* C21: the target a launched user requests is the admitted input verbatim *)
(* (without surrounding white space) when the input carried the scheme     *)
(* http or https in any letter case, the input prefixed with http:// when  *)
(* it has a port and no scheme, and prefixed with https:// otherwise.      *)
C21_Normalized ==
    \A i \in DOMAIN targetURL :
        user[i] # "none" =>
            LET h == TrimSpace(testRun[F].host)
            IN  targetURL[i] = IF CarriesScheme(h) THEN h
                               ELSE IF HasPort(h) THEN HttpPrefix \o h
                               ELSE HttpsPrefix \o h

----------------------------------------------------------------------------
(* Claims checked under SpecLim.                                           *)

(* The methods of the specification's list, in lower case.                 *)
ListedMethods ==
    { <<"g", "e", "t">>, <<"p", "o", "s", "t">>,
      <<"p", "u", "t">>,
      <<"d", "e", "l", "e", "t", "e">>,
      <<"p", "a", "t", "c", "h">>,
      <<"h", "e", "a", "d">>,
      <<"o", "p", "t", "i", "o", "n", "s">> }

(* A start request as sent breaks a limit of the specification.            *)
BreaksLimits(r) ==
    LET m == IF r.call.method = <<>> THEN <<"g", "e", "t">> ELSE ToLower(r.call.method)
    IN  \/ r.p.users < 1 \/ r.p.users > 1000
        \/ r.p.duration < 1 \/ r.p.duration > 300
        \/ r.p.ramp < 0 \/ r.p.ramp > 300
        \/ r.p.ramp > r.p.duration
        \/ m \notin ListedMethods
        \/ (r.call.body # <<>> /\ m \in {<<"g", "e", "t">>, <<"h", "e", "a", "d">>})

RefusedStarts == {q \in Reqs : req[q].pc # "idle" /\ BreaksLimits(req[q])}

(* C22: a start request that breaks a limit on users, duration or ramp,    *)
(* names a method outside the list or carries a body with GET or HEAD is   *)
(* answered 400; it creates no row, descriptor or registry entry, and no   *)
(* supervisor (the only launcher of users) is started for it.              *)
C22_LimitsRejected ==
    /\ \A q \in RefusedStarts : req[q].pc = "done" /\ req[q].resp = 400
    /\ Cardinality(DOMAIN db) + Cardinality(RefusedStarts)
          <= Cardinality({q \in Reqs : req[q].pc # "idle"})
    /\ DOMAIN testRun = DOMAIN db
    /\ DOMAIN sup \subseteq DOMAIN db
    /\ activeTests \subseteq DOMAIN db

(* A request with method get and a body was refused while a request with   *)
(* method head and no body started a run.                                  *)
C22_Witness ==
    /\ \E q \in Reqs : /\ req[q].call = [method |-> <<"g", "e", "t">>, body |-> <<"{", "}">>]
                        /\ req[q].resp = 400
    /\ \E q \in Reqs : /\ req[q].call = [method |-> <<"h", "e", "a", "d">>, body |-> <<>>]
                        /\ req[q].resp = 200
    /\ Cardinality(DOMAIN sup) = 1

----------------------------------------------------------------------------
(* Further claims checked under SpecAdm.                                   *)

(* C23: a start request that was refused or failed is answered with the    *)
(* status class of its cause: 400 for a validation failure, 403 or 429 for *)
(* a refusal by the global cap, the per-caller cap or the rate limiter,    *)
(* 500 for a failed SaveTestRun.                                           *)
C23_StatusClasses ==
    \A q \in Reqs :
        req[q].pc = "done" =>
            /\ req[q].why \in {"host", "validation"} => req[q].resp = 400
            /\ req[q].why \in {"global", "perip", "rate"} => req[q].resp \in {403, 429}
            /\ req[q].why = "save" => req[q].resp = 500

----------------------------------------------------------------------------
(* Claims checked under SpecShut.                                          *)

(* C24: when the shutdown sequence has completed and the process has       *)
(* exited, a run that was in the registry at shutdown (its scope was       *)
(* cancelled by tm.Shutdown) is not left with persisted status running.    *)
C24_FinalizedAtExit ==
    (proc = "exited" /\ tctx[F].done) => db[F].status # "running"

(* The per-caller table holds run u.                                       *)
Tracked(u) == \E ip \in DOMAIN testsPerIP : u \in testsPerIP[ip]

(* C25: a run enters the registry, the per-caller table and gets its       *)
(* supervisor (the launcher of its users) only when its row is stored with *)
(* status running; a start request whose SaveTestRun failed is answered    *)
(* with an error and its run has no row, no registry entry, no per-caller  *)
(* entry and no supervisor.                                                *)
C25_PersistedBeforeLaunch ==
    [][ \A q \in Reqs :
          LET u == NewUUID(q) IN
          /\ (u \in activeTests' /\ u \notin activeTests)
                => (u \in DOMAIN db /\ db[u].status = "running")
          /\ (Tracked(u)' /\ ~Tracked(u)) => (u \in DOMAIN db /\ u \in activeTests)
          /\ (u \in DOMAIN sup' /\ u \notin DOMAIN sup)
                => (u \in DOMAIN db /\ u \in activeTests /\ Tracked(u)')
          /\ req'[q].why = "save"
                => /\ req'[q].resp = 500
                   /\ u \notin DOMAIN db'
                   /\ u \notin activeTests'
                   /\ ~Tracked(u)'
                   /\ u \notin DOMAIN sup' ]_vars

(* One start failed in SaveTestRun and another was registered and          *)
(* launched.                                                               *)
C25_Witness ==
    /\ \E q \in Reqs : req[q].why = "save" /\ req[q].resp = 500
    /\ \E q \in Reqs : /\ req[q].resp = 200
                        /\ NewUUID(q) \in activeTests
                        /\ NewUUID(q) \in DOMAIN sup
                        /\ db[NewUUID(q)].status = "running"

----------------------------------------------------------------------------
(* Claims checked under SpecTs.                                            *)

(* The bucket of a stored sample: its whole-second offset from started_at, *)
(* 0 for a negative offset. Timestamps are in milliseconds.                *)
BucketOf(r) ==
    IF r.ts < StartTime THEN 0
    ELSE CHOOSE b \in 0..(TsMaxTime + 1) :
            b * 1000 <= r.ts - StartTime /\ r.ts - StartTime < (b + 1) * 1000

(* The time series rebuilt for the run has one point per non-empty bucket, *)
(* with the bucket's samples counted, in ascending order of the offset.    *)
BucketsRebuilt ==
    LET pts == HistoricalResponse(F).timeSeries
        rows == GetRequestMetrics(F)
    IN  /\ \A k \in DOMAIN rows : \E j \in DOMAIN pts : pts[j].second = BucketOf(rows[k])
        /\ \A j \in DOMAIN pts :
              /\ pts[j].requests > 0
              /\ pts[j].requests =
                    Cardinality({k \in DOMAIN rows : BucketOf(rows[k]) = pts[j].second})
              /\ pts[j].success =
                    Cardinality({k \in DOMAIN rows :
                                    BucketOf(rows[k]) = pts[j].second /\ rows[k].success})
        /\ \A j \in 1..(Len(pts) - 1) : pts[j].second < pts[j + 1].second

(* C26: for a finalized run the time series rebuilt from the stored        *)
(* samples puts every sample into the bucket of its whole-second offset    *)
(* from started_at (negative offsets into bucket 0), lists the non-empty   *)
(* buckets in ascending order and has at most duration + 1 points.         *)
C26_Reconstruction ==
    Finalized =>
        /\ BucketsRebuilt
        /\ Len(HistoricalResponse(F).timeSeries) <= testRun[F].duration + 1

----------------------------------------------------------------------------
(* Further claims checked under Spec.                                      *)

(* C27: once the scope of the run is cancelled or its stop signal is       *)
(* raised, no virtual user starts a new request: a user at its select      *)
(* returns and does not take the pacing ticker.                            *)
C27_NoRequestAfterStop ==
    [][ (tctx[F].done \/ stopChan) =>
            \A i \in DOMAIN user :
                ~(user[i] = "select" /\ user'[i] \in {"req", "reqc"}) ]_vars

----------------------------------------------------------------------------
(* Claims checked under SpecOut.                                           *)

----------------------------------------------------------------------------
(* Claims checked under SpecFin.                                           *)

Descriptors(u) == <<testRun[u], db[u]>>

(* The persisted half of C29: completed_at and status are written by one   *)
(* UPDATE, after the writer's own line 1282.                               *)
PersistedCompletedAt ==
    \A u \in DOMAIN db : db[u].completedAt <=> db[u].status # "running"

(* The second half of C29: no descriptor leaves a terminal status.         *)
StatusMonotonic ==
    [][ /\ \A u \in DOMAIN testRun :
             testRun[u].status # "running" => testRun'[u].status = testRun[u].status
        /\ \A u \in DOMAIN db :
             db[u].status # "running" => db'[u].status = db[u].status ]_vars

(* C29: in every state, the descriptor in memory and the row have          *)
(* completed_at set iff their status is not "running", and a status that   *)
(* is not "running" never changes again.                                   *)
C29_DescriptorStates ==
    /\ [](\A u \in DOMAIN testRun :
            \A d \in {Descriptors(u)[1], Descriptors(u)[2]} :
               d.completedAt <=> d.status # "running")
    /\ StatusMonotonic

(* The row's totals.                                                       *)
Totals(row) == <<row.total, row.success, row.error>>

(* The first half of C30: the row of a run not yet finalized has zero      *)
(* totals.                                                                 *)
ZeroUntilFinalized ==
    \A u \in DOMAIN db : db[u].status = "running" => Totals(db[u]) = <<0, 0, 0>>

(* C30: the totals of the row are zero while its status is "running" and   *)
(* no write of the row, by the stop handler or by the finalization, lowers *)
(* one of them.                                                            *)
C30_TotalsMonotonic ==
    /\ []ZeroUntilFinalized
    /\ [][ \A u \in DOMAIN db : \A k \in 1..3 : Totals(db'[u])[k] >= Totals(db[u])[k] ]_vars

----------------------------------------------------------------------------
(* Claims checked under FairSink.                                          *)

(* The step is a sample write that failed.                                 *)
SampleWriteFailed == saveErrors' = saveErrors + 1

(* C31: a sample write that fails leaves its user at the select of its     *)
(* loop with the request counted by the collector, and raises neither the  *)
(* run's cancellation nor its stop signal; every request is counted,       *)
(* stored or not; a descriptor update that fails still leaves the run      *)
(* completed in memory and the supervisor on its way; and with any number  *)
(* of failed writes the run ends finalized and out of the registry.        *)
C31_SinkFailureContained ==
    /\ [][ SampleWriteFailed =>
              /\ metrics'[F].total = metrics[F].total + 1
              /\ \E i \in DOMAIN user : user[i] \in {"req", "reqc"} /\ user'[i] = "select"
              /\ \A i \in DOMAIN user : user'[i] # "returned" \/ user[i] = "returned"
              /\ tctx' = tctx /\ stopChan' = stopChan /\ sup' = sup ]_vars
    /\ [](metrics[F].total = Len(requestMetrics) + saveErrors)
    /\ [][ (sup[F].pc = "final" /\ sup'[F].pc # "final") =>
              /\ sup'[F].pc = "unregister"
              /\ testRun'[F].status = "completed" /\ ~tctx'[F].isRunning ]_vars
    /\ <>(Finalized /\ F \notin activeTests /\ sup[F].pc = "done")

(* Every sample write of the run failed, the descriptor update failed too, *)
(* and the run is finalized and released.                                  *)
C31_Witness ==
    /\ saveErrors = SinkRequests /\ requestMetrics = <<>>
    /\ metrics[F].total = SinkRequests
    /\ updateFailed[F] /\ db[F].status = "running"
    /\ testRun[F].status = "completed"
    /\ sup[F].pc = "done" /\ F \notin activeTests

----------------------------------------------------------------------------
(* Claims checked under SpecPeer.                                          *)

(* The start requests read so far.                                         *)
Arrived == {q \in Reqs : req[q].pc # "idle"}

(* C32: two start requests without an X-Forwarded-For header that come     *)
(* from the same address, over whatever source ports, are accounted to the *)
(* same caller key; hence the second of two such starts within             *)
(* RateLimitSeconds starts no run.                                         *)
C32_KeyedPerIP ==
    \A q, r \in Arrived :
        (/\ req[q].forwarded = <<>> /\ req[r].forwarded = <<>>
         /\ PeerAddress(req[q].remoteAddr) = PeerAddress(req[r].remoteAddr))
        => /\ req[q].ip = req[r].ip
           /\ (q # r /\ req[q].resp = 200) => req[r].resp # 200

----------------------------------------------------------------------------
(* Claims checked under SpecRamp.                                          *)

(* The step is a tick of the ramp ticker taken by the scheduler.           *)
RampTicked == ramp.pc = "select" /\ ramp'.elapsed # ramp.elapsed

(* C33: with R > 0, a tick at elapsed time t < R sets the number of users  *)
(* to start to max(started, floor(t * N / R)), and the scheduler is back   *)
(* at its select only with that many started; with R = 0 the first tick    *)
(* starts all N users, the rate N / R being +Inf.                          *)
C33_RampSchedule ==
    /\ [][ (RampTicked /\ R > 0 /\ ramp'.elapsed < R * RampTicksPerSec) =>
              IF TargetUsersExact(ramp'.elapsed) > ramp.started
              THEN ramp'.pc = "batch" /\ ramp'.target = TargetUsersExact(ramp'.elapsed)
              ELSE ramp'.pc = "select" /\ ramp'.started = ramp.started ]_vars
    /\ [](ramp.pc = "select" /\ R > 0 => ramp.started = TargetUsersExact(ramp.elapsed))
    /\ [][ (RampTicked /\ R = 0) => (ramp.elapsed = 0 /\ ramp'.pc = "burst") ]_vars
    /\ [](R = 0 /\ ramp.pc \in {"select", "burst", "done"} => ramp.ups = FInf)
    /\ [](R = 0 /\ ramp.pc = "done" => (ramp.started = N /\ ramp.elapsed = 1))

(* What holds of the code in place of C33's first part: the number to      *)
(* start is int(t * (N / R)) in float64.                                   *)
RampFollowsFloat ==
    ramp.pc = "select" /\ R > 0 /\ ramp.elapsed < R * RampTicksPerSec
        => ramp.started = FTrunc(FMul(Seconds(ramp.elapsed), usersPerSecond(N, R)))

----------------------------------------------------------------------------
(* Claims checked under SpecPace.                                          *)

(* The start requests whose descriptor was built.                          *)
Built == {q \in Reqs : NewUUID(q) \in DOMAIN testRun}

(* C34: the descriptor of every accepted start request has a per-user rate *)
(* in 1..100, which is 10 for a missing or non-positive request value, 100 *)
(* for a value above 100 and the value itself otherwise, and a threshold   *)
(* in 0..100; the pacing period of its users, 1000 / rate in whole         *)
(* milliseconds, is at least 10 ms.                                        *)
C34_PacingRange ==
    \A q \in Built :
        LET t == testRun[NewUUID(q)]
            m == RequestedRate(req[q].p)
        IN  /\ t.maxConcurrentRequests \in 1..100
            /\ t.maxConcurrentRequests =
                   (IF m <= 0 THEN 10 ELSE IF m > 100 THEN 100 ELSE m)
            /\ t.threshold \in 0..100
            /\ t.threshold =
                   (IF req[q].p.threshold < 0 THEN 0
                    ELSE IF req[q].p.threshold > 100 THEN 100 ELSE req[q].p.threshold)
            /\ tickerInterval(t.maxConcurrentRequests) >= 10
            /\ tickerInterval(t.maxConcurrentRequests) * t.maxConcurrentRequests <= 1000

(* Runs were started by a request with rate 1001 and threshold 101 and by  *)
(* a request without a rate and with threshold -1.                         *)
C34_Witness ==
    \E q, r \in Built :
        /\ req[q].resp = 200 /\ req[r].resp = 200
        /\ RequestedRate(req[q].p) = 1001 /\ req[q].p.threshold = MaxThreshold + 1
        /\ tickerInterval(testRun[NewUUID(q)].maxConcurrentRequests) = 10
        /\ "rate" \notin DOMAIN req[r].p /\ req[r].p.threshold < 0
        /\ tickerInterval(testRun[NewUUID(r)].maxConcurrentRequests) = 100

----------------------------------------------------------------------------
(* Claims checked under SpecSerial.                                        *)

(* The issuance numbers of user i's requests, in the order they were       *)
(* handed to the sink.                                                     *)
EmittedBy(i) == SelectSeq(flight.emitted, LAMBDA x : x[1] = i)

(* The step is user i issuing a request.                                   *)
Issues(i) == flight'.open[i] # flight.open[i] /\ flight'.emitted = flight.emitted

(* C35: a user has at most one request in flight; it issues a request only *)
(* when each of its earlier requests was recorded by the collector and     *)
(* handed to the sink; and its samples reach the sink in the order their   *)
(* requests were issued.                                                   *)
C35_SerialUser ==
    /\ [](\A i \in DOMAIN flight.open : Cardinality(flight.open[i]) <= 1)
    /\ [][ \A i \in DOMAIN flight.open :
              Issues(i) => /\ flight.open[i] = {}
                           /\ \A j \in DOMAIN flight.open : j # i =>
                                  flight'.open[j] = flight.open[j] ]_vars
    /\ [](/\ metrics[F].total = Len(flight.emitted)
          /\ Len(requestMetrics) + saveErrors = Len(flight.emitted)
          /\ issued = Len(flight.emitted)
                        + Cardinality({i \in DOMAIN flight.open : flight.open[i] # {}}))
    /\ [](\A i \in DOMAIN flight.open :
            \A k, l \in 1..Len(EmittedBy(i)) :
               k < l => EmittedBy(i)[k][2] < EmittedBy(i)[l][2])

(* Both users have had requests through, user 1 twice, and user 2 has its  *)
(* second request in flight.                                               *)
C35_Witness ==
    /\ Len(EmittedBy(1)) = 2 /\ Len(EmittedBy(2)) = 1
    /\ flight.open[2] # {} /\ flight.open[1] = {}
    /\ flight.emitted[1][1] = 2

----------------------------------------------------------------------------
(* Claims checked under SpecAdm.                                           *)

(* The runs the per-IP table holds for ip.                                 *)
RunsOf(ip) == IF ip \in DOMAIN testsPerIP THEN testsPerIP[ip] ELSE {}

(* The step is the end of run u's deferred function.                       *)
Released(u) == sup[u].pc = "untrack" /\ sup'[u].pc = "done"

(* C36: a run whose deferred function has ended is in neither the registry *)
(* nor the per-IP table; the step that ends it lowers its caller's number  *)
(* of runs by one and leaves every other caller's runs alone; no entry of  *)
(* the per-IP table is empty; and no run is held for two callers.          *)
C36_Released ==
    /\ [](\A u \in DOMAIN sup :
            sup[u].pc = "done" =>
                /\ u \notin activeTests
                /\ \A ip \in DOMAIN testsPerIP : u \notin testsPerIP[ip])
    /\ [][ \A u \in DOMAIN sup :
              Released(u) =>
                  /\ u \in RunsOf(sup[u].ip)
                  /\ RunsOf(sup[u].ip)' = RunsOf(sup[u].ip) \ {u}
                  /\ \A ip \in DOMAIN testsPerIP :
                         ip # sup[u].ip => RunsOf(ip)' = RunsOf(ip) ]_vars
    /\ [](\A ip \in DOMAIN testsPerIP : testsPerIP[ip] # {})
    /\ [](\A a, b \in DOMAIN testsPerIP : a # b => testsPerIP[a] \cap testsPerIP[b] = {})

(* A run started in the window has ended and its caller, who had no other  *)
(* run, has no entry left, while other callers still hold theirs.          *)
C36_Witness ==
    \E q \in Reqs :
        /\ req[q].resp = 200
        /\ NewUUID(q) \in DOMAIN sup /\ sup[NewUUID(q)].pc = "done"
        /\ req[q].ip \notin DOMAIN testsPerIP
        /\ DOMAIN testsPerIP # {}

----------------------------------------------------------------------------
(* Claims checked under Spec.                                              *)

(* Users of the run that are in their loop and have not been told to stop. *)
StillIssuing ==
    /\ ~stopChan /\ ~tctx[F].done
    /\ \E i \in DOMAIN user : user[i] \in {"select", "req"}

(* C37: a status or metrics response with is_running = true comes with a   *)
(* descriptor whose status is "running" and whose completed_at is not set, *)
(* and no step marks the descriptor completed while users of the run are   *)
(* still issuing requests.                                                 *)
C37_RunningMeansRunning ==
    /\ []((StatusResponse(F).isRunning \/ MetricsResponse(F).isRunning) =>
             /\ StatusResponse(F).status = "running"
             /\ testRun[F].status = "running" /\ ~testRun[F].completedAt)
    /\ [][ (testRun[F].status = "running" /\ testRun'[F].status # "running")
              => ~StillIssuing ]_vars

(* runLoadTest is past wg.Wait(): its deferred function has begun.         *)
DrainReturned == sup[F].pc \in {"final", "unregister", "untrack", "done"}

(* C38: once the stop signal is raised the scheduler starts no further     *)
(* user, and once the drain wait has returned no user of the run is        *)
(* running and none is started.                                            *)
C38_NoLaunchAfterDrain ==
    /\ [][ stopChan => ramp'.started = ramp.started ]_vars
    /\ [](DrainReturned => \A i \in DOMAIN user : user[i] \in {"none", "returned"})

----------------------------------------------------------------------------
(* Claims checked under SpecSnap.                                          *)

(* C39: the counters a live snapshot answers with, and the counters a      *)
(* circuit-breaker poll reads, satisfy success + error <= total and        *)
(* error <= total (so that 100 * error / total lies in [0, 100]).          *)
C39_ConsistentCounters ==
    /\ [](snap.answered > 0 => /\ snap.pc = "idle" => snap.success + snap.error <= snap.total
                               /\ snap.pc = "idle" => snap.error <= snap.total)
    /\ [][ (cb.pc = "read" /\ cb'.pc # "read") => metrics[F].error <= cb.total ]_vars

(* The live snapshot alone: what a metrics request answered.               *)
SnapshotConsistent ==
    (snap.answered > 0 /\ snap.pc = "idle")
        => (snap.success + snap.error <= snap.total /\ snap.error <= snap.total)

(* The circuit-breaker poll alone.                                         *)
PollConsistent ==
    [][ (cb.pc = "read" /\ cb'.pc # "read") => metrics[F].error <= cb.total ]_vars

----------------------------------------------------------------------------
(* Claims checked under SpecFin (continued).                               *)

(* An execution of calculateAndSaveMetrics is between its first write of   *)
(* the descriptor (line 1281) and the end of UpdateTestRun's read of it    *)
(* (line 1291).                                                            *)
StopWriting == stopLog.pc \in {"completedAt", "totals", "save"}

SupWriting == sup[F].pc \in {"completedAt", "totals", "save"}

(* The status, metrics and running-list handlers reach the descriptor      *)
(* through the registry (lines 1299-1309).                                 *)
DescriptorReadable == F \in activeTests

(* C40: accesses to the mutable fields of a run descriptor exclude each    *)
(* other when one of them writes: the stop handler and the supervisor's    *)
(* finalization are never both inside their writes, and no handler can     *)
(* read the descriptor while one of them is.                               *)
C40_DescriptorExclusive ==
    /\ ~(StopWriting /\ SupWriting)
    /\ (StopWriting \/ SupWriting) => ~DescriptorReadable

(* The writers alone.                                                      *)
WritersExclusive == ~(StopWriting /\ SupWriting)
====
